---- MODULE Spec2Model ----
(***************************************************************************)
(* Marian: the front-end (Marian / Index / Pool / TaskWorker) and its      *)
(* worker processes (worker-searcher), as a state machine.                 *)
(*                                                                         *)
(* The front-end is one event loop: every action below is one macrotask    *)
(* (an HTTP request, a timer, a message or exit event of a child) together *)
(* with the promise continuations (microtasks) it releases.  Each worker   *)
(* process handles one message per step.  A worker's two channels die with *)
(* the process.                                                            *)
(***************************************************************************)
EXTENDS Integers, Sequences, FiniteSets, TLC

\* ---- program constants --------------------------------------------------
MAXIMUM_BACKLOG == 20
WARNING_BACKLOG == 15
MIN_RESTART_INTERVAL == 3600000
NWorkers == 2

\* ---- bounds of the model ------------------------------------------------
MaxMessageId == 2
MaxLoads == 2
MaxTicks == 1
MaxExits == 1
MaxInserts == 3
MaxTokenLen == 2
MaxQueryLen == 5
MaxPhrases == 2
MaxAdds == 2
MaxCorrelations == 2

\* the searches in flight when the loaded front-end is first observed
Preload == MAXIMUM_BACKLOG

Workers == 1..NWorkers
LoadIds == 1..MaxLoads
Null == -1
TickSize == MIN_RESTART_INTERVAL
MaxTime == MaxTicks * TickSize

\* ---- what the manifest fetcher can return -------------------------------
\* A manifest: its searchProperty tag and whether its body is valid JSON.
ManifestA == [searchProperty |-> "a", parses |-> TRUE]
ManifestB == [searchProperty |-> "b", parses |-> TRUE]
ManifestBad == [searchProperty |-> "c", parses |-> FALSE]
Listings == << <<ManifestA>>, <<ManifestA, ManifestB>>, <<ManifestA, ManifestBad>> >>
ListingIds == 1..Len(Listings)

VARIABLES
    \* TaskWorker (one per pool element)
    backlog, pending, messageId, lastStarted, dead, worker,
    \* Pool
    suspended,
    \* Index
    manifests, errors, lastSyncDate, currentlyIndexing,
    \* the calls of Index.load in progress, and where each stands
    loads,
    \* the child processes: their message queues and worker-searcher's `index`
    inbox, outbox, index,
    \* the event loop: clock, pending restart timers
    now, restartTimer,
    \* how many child processes have exited so far
    nExits,
    \* what the step just taken handed to the outside: the HTTP request it
    \* served and the status written, the error a load() call threw, the
    \* call of TaskWorker.send, the promises settled, the worker whose failed
    \* sync ended load's timer callback, and whether a rejection went unhandled
    out,
    \* the part of a worker looked at on its own: one call of search() with
    \* the manifests synced, the request, the matches of its query and what
    \* it returned; or a Trie and the inserts made into it so far; or a query
    \* string and the Query made of it; or the stemmed phrases of a Query, the
    \* token positions of a match and what checkPhrases says of them; or an
    \* FTSIndex and the documents added to it so far; or an FTSIndex, the terms
    \* of a query, the word correlations registered so far and the relevancy
    \* scores as they were before the last of them
    call

vars == <<backlog, pending, messageId, lastStarted, dead, worker, suspended,
          manifests, errors, lastSyncDate, currentlyIndexing, loads,
          inbox, outbox, index, now, restartTimer, nExits, out,
          call>>

NoSend == [worker |-> 0, error |-> ""]
NoSettle == [worker |-> 0, how |-> "none", error |-> ""]
NoOut == [request |-> "none", code |-> 0, error |-> "", send |-> NoSend,
          settle |-> NoSettle, abort |-> 0, unhandled |-> FALSE]

\* The part of the state the front-end's promise continuations write, at the
\* start of a step; they read worker (this.worker set) and now (new Date()).
Cur ==
    [backlog |-> backlog, pending |-> pending, messageId |-> messageId,
     inbox |-> inbox, suspended |-> suspended, loads |-> loads,
     manifests |-> manifests, lastSyncDate |-> lastSyncDate,
     currentlyIndexing |-> currentlyIndexing,
     worker |-> worker, now |-> now, out |-> NoOut]

Commit(s) ==
    /\ backlog' = s.backlog
    /\ pending' = s.pending
    /\ messageId' = s.messageId
    /\ inbox' = s.inbox
    /\ suspended' = s.suspended
    /\ loads' = s.loads
    /\ manifests' = s.manifests
    /\ lastSyncDate' = s.lastSyncDate
    /\ currentlyIndexing' = s.currentlyIndexing
    /\ out' = s.out

EmptyMap == [i \in {} |-> 0]
NoLoad == [pc |-> "free", i |-> 0, manifests |-> 0, caller |-> "none"]

\* ---- Pool ---------------------------------------------------------------
\* suspend that also drops what is pending on the element.
Pool_suspendCancels(s, w) ==
    [s EXCEPT !.suspended = @ \cup {w},
              !.pending[w] = EmptyMap,
              !.backlog[w] = 0]

\* suspend that forgets to add the element.
Pool_suspendNothing(s, w) == s

Pool_suspend(s, w) == [s EXCEPT !.suspended = @ \cup {w}]

Pool_resume(s, w) == [s EXCEPT !.suspended = @ \ {w}]

\* The loop with <= for <: among equals the last created wins.
RECURSIVE Pool_scanLast(_, _, _, _)
Pool_scanLast(susp, bl, i, min) ==
    IF i > NWorkers THEN min
    ELSE IF i \in susp THEN Pool_scanLast(susp, bl, i + 1, min)
    ELSE IF min = 0 \/ bl[i] <= bl[min] THEN Pool_scanLast(susp, bl, i + 1, i)
    ELSE Pool_scanLast(susp, bl, i + 1, min)

\* The loop of Pool.get over this.pool, from element i on; min = 0 is `dummy`.
RECURSIVE Pool_scan(_, _, _, _)
Pool_scan(susp, bl, i, min) ==
    IF i > NWorkers THEN min
    ELSE IF i \in susp THEN Pool_scan(susp, bl, i + 1, min)
    ELSE IF min = 0 \/ bl[i] < bl[min] THEN Pool_scan(susp, bl, i + 1, i)
    ELSE Pool_scan(susp, bl, i + 1, min)

\* Pool.get: the element returned, or worker = 0 and the message of the Error thrown.
Pool_get(susp, bl) ==
    LET min == Pool_scan(susp, bl, 1, 0)
    IN  IF min = 0 THEN [worker |-> 0, error |-> "No pool elements available"]
        ELSE [worker |-> min, error |-> ""]

StatusS == [tag |-> "s"]
StatusBacklog(n) == [tag |-> "backlog", value |-> n]

\* getStatus with the test on the suspended set inverted.
Pool_getStatusInverted(susp, bl) ==
    [w \in Workers |-> IF w \in susp THEN StatusBacklog(bl[w]) ELSE StatusS]

Pool_getStatus(susp, bl) ==
    [w \in Workers |-> IF w \notin susp THEN StatusBacklog(bl[w]) ELSE StatusS]

\* ---- Marian.handleStatus --------------------------------------------------
\* The entry handleStatus takes for a dead worker.
StatusD == [tag |-> "d"]

\* The loop of handleStatus over status.workers, from entry i on.
RECURSIVE Marian_statusLoop(_, _, _)
Marian_statusLoop(workers, i, statusCode) ==
    IF i > Len(workers) THEN statusCode
    ELSE IF workers[i] = StatusD THEN 500
    ELSE IF workers[i].tag = "backlog" /\ workers[i].value <= WARNING_BACKLOG
    THEN Marian_statusLoop(workers, i + 1, 200)
    ELSE Marian_statusLoop(workers, i + 1, statusCode)

\* The status code handleStatus writes.
Marian_statusCode(susp, bl) ==
    Marian_statusLoop(Pool_getStatus(susp, bl), 1, 503)

\* ---- TaskWorker.send ----------------------------------------------------
SearchMessage(useHits) == [kind |-> "search", useHits |-> useHits, sync |-> 0]
SyncMessage(k) == [kind |-> "sync", useHits |-> FALSE, sync |-> k]
SearchWaiter == [kind |-> "search", load |-> 0]
SyncWaiter(l) == [kind |-> "sync", load |-> l]

\* send without the admission test on the backlog.
TaskWorker_sendUnchecked(s, w, message, waiter) ==
    IF ~s.worker[w]
    THEN [s EXCEPT !.out.send = [worker |-> w, error |-> "Worker not running"]]
    ELSE [s EXCEPT !.messageId[w] = @ + 1,
                   !.backlog[w] = @ + 1,
                   !.inbox[w] = Append(@, [message |-> message,
                                           messageId |-> s.messageId[w]]),
                   !.pending[w] = @ @@ (s.messageId[w] :> waiter),
                   !.out.send = [worker |-> w, error |-> ""]]

\* waiter is the continuation that awaits the returned promise.
TaskWorker_send(s, w, message, waiter) ==
    IF s.backlog[w] > MAXIMUM_BACKLOG
    THEN [s EXCEPT !.out.send = [worker |-> w, error |-> "backlog-exceeded"]]
    ELSE IF ~s.worker[w]
    THEN [s EXCEPT !.out.send = [worker |-> w, error |-> "Worker not running"]]
    ELSE [s EXCEPT !.messageId[w] = @ + 1,
                   !.backlog[w] = @ + 1,
                   !.inbox[w] = Append(@, [message |-> message,
                                           messageId |-> s.messageId[w]]),
                   !.pending[w] = @ @@ (s.messageId[w] :> waiter),
                   !.out.send = [worker |-> w, error |-> ""]]

\* ---- Marian: the answer to a search request -----------------------------
\* handleSearch once fetchResults has returned (a result list or undefined):
\* it reads this.index.lastSyncDate.toUTCString(), which throws while
\* lastSyncDate is null; nothing awaits handleSearch, so no response is
\* written and the rejection is unhandled.
Marian_handleSearchRespond(s) ==
    IF s.lastSyncDate = Null
    THEN [s EXCEPT !.out.unhandled = TRUE]
    ELSE [s EXCEPT !.out.code = 200]

\* The catch block of fetchResults, for an Error with message err.
Marian_fetchResultsCatch(s, err) ==
    IF err \in {"still-indexing", "backlog-exceeded", "pool-unavailable"}
    THEN [s EXCEPT !.out.code = 503]
    ELSE IF err = "query-too-long"
    THEN [s EXCEPT !.out.code = 400]
    ELSE Marian_handleSearchRespond(s)

\* search asking for HITS only below the warning level.
Index_searchBelow(s) ==
    LET g == Pool_get(s.suspended, s.backlog)
    IN  IF g.worker = 0 THEN [state |-> s, error |-> g.error]
        ELSE LET useHits == s.backlog[g.worker] < WARNING_BACKLOG
                 s1 == TaskWorker_send(s, g.worker, SearchMessage(useHits),
                                       SearchWaiter)
             IN  [state |-> s1, error |-> s1.out.send.error]

\* ---- Index.search -------------------------------------------------------
\* The state after the call and the message of the Error thrown ("" if none).
Index_search(s) ==
    LET g == Pool_get(s.suspended, s.backlog)
    IN  IF g.worker = 0 THEN [state |-> s, error |-> g.error]
        ELSE LET useHits == s.backlog[g.worker] <= WARNING_BACKLOG
                 s1 == TaskWorker_send(s, g.worker, SearchMessage(useHits),
                                       SearchWaiter)
             IN  [state |-> s1, error |-> s1.out.send.error]

\* ---- Index.load ---------------------------------------------------------
Tags(k) == [j \in 1..Len(Listings[k]) |-> Listings[k][j].searchProperty]

\* load without the currentlyIndexing test.
Index_loadUnguarded(s, l, caller) ==
    [s EXCEPT !.currentlyIndexing = TRUE,
              !.loads[l] = [pc |-> "fetching", i |-> 0, manifests |-> 0,
                            caller |-> caller]]

\* The call itself, up to the first await.  l is the slot of the call.
Index_load(s, l, caller) ==
    IF s.currentlyIndexing
    THEN [s EXCEPT !.out.error = "already-indexing"]
    ELSE [s EXCEPT !.currentlyIndexing = TRUE,
                   !.loads[l] = [pc |-> "fetching", i |-> 0, manifests |-> 0,
                                 caller |-> caller]]

\* The sync of worker v failed: the exception leaves the async timer
\* callback, and nothing catches it.
Index_loadAbort(s, l, v) ==
    [s EXCEPT !.loads[l] = NoLoad, !.out.abort = v, !.out.unhandled = TRUE]

\* One turn of the loop that sends the sync without suspending the worker.
Index_loadWorkerUnsuspended(s, l, v) ==
    LET s2 == TaskWorker_send(s, v, SyncMessage(s.loads[l].manifests),
                              SyncWaiter(l))
    IN  IF s2.out.send.error # ""
        THEN Index_loadAbort(Pool_resume(s2, v), l, v)
        ELSE [s2 EXCEPT !.loads[l].pc = "syncing", !.loads[l].i = v]

\* One turn of the for loop up to its await: suspend, send the sync.
Index_loadWorker(s, l, v) ==
    LET s1 == Pool_suspend(s, v)
        s2 == TaskWorker_send(s1, v, SyncMessage(s.loads[l].manifests),
                              SyncWaiter(l))
    IN  IF s2.out.send.error # ""
        THEN Index_loadAbort(Pool_resume(s2, v), l, v)
        ELSE [s2 EXCEPT !.loads[l].pc = "syncing", !.loads[l].i = v]

\* The loop publishing the manifest list after every synced worker.
Index_loadResumedPublishing(s, l, v, ok) ==
    LET s1 == Pool_resume(s, v)
    IN  IF ~ok THEN Index_loadAbort(s1, l, v)
        ELSE LET s2 == [s1 EXCEPT !.lastSyncDate = s.now,
                                  !.manifests = Tags(s.loads[l].manifests)]
             IN  IF v < NWorkers THEN Index_loadWorker(s2, l, v + 1)
                 ELSE [s2 EXCEPT !.currentlyIndexing = FALSE,
                                 !.loads[l] = NoLoad]

\* The loop going on to the next worker while worker v stays suspended; the
\* workers are resumed together at the end.
Index_loadResumedLate(s, l, v, ok) ==
    IF ~ok THEN Index_loadAbort(Pool_resume(s, v), l, v)
    ELSE LET s2 == [s EXCEPT !.lastSyncDate = s.now]
         IN  IF v < NWorkers THEN Index_loadWorker(s2, l, v + 1)
             ELSE [s2 EXCEPT
                       !.suspended = {},
                       !.currentlyIndexing = FALSE,
                       !.manifests = Tags(s.loads[l].manifests),
                       !.loads[l] = NoLoad]

\* The loop after the await on worker v has settled (ok: resolved).
Index_loadResumed(s, l, v, ok) ==
    LET s1 == Pool_resume(s, v)
    IN  IF ~ok THEN Index_loadAbort(s1, l, v)
        ELSE LET s2 == [s1 EXCEPT !.lastSyncDate = s.now]
             IN  IF v < NWorkers THEN Index_loadWorker(s2, l, v + 1)
                 ELSE [s2 EXCEPT !.currentlyIndexing = FALSE,
                                 !.manifests = Tags(s.loads[l].manifests),
                                 !.loads[l] = NoLoad]

\* ---- TaskWorker.onmessage / stop ----------------------------------------
\* The continuation of a settled promise; err = "" when it was resolved.
Settle(s, w, waiter, err) ==
    IF waiter.kind = "sync"
    THEN Index_loadResumed(s, waiter.load, w, err = "")
    ELSE IF err = "" THEN Marian_handleSearchRespond(s)
    ELSE Marian_fetchResultsCatch(s, err)

Without(f, id) == [j \in DOMAIN f \ {id} |-> f[j]]

\* onmessage that settles the newest pending request, whatever the reply's id.
TaskWorker_onmessageNewest(s, w, data) ==
    IF data.messageId \notin DOMAIN s.pending[w] THEN s
    ELSE LET id == CHOOSE x \in DOMAIN s.pending[w] :
                       \A y \in DOMAIN s.pending[w] : x >= y
             waiter == s.pending[w][id]
             s1 == [s EXCEPT !.backlog[w] = @ - 1,
                             !.pending[w] = Without(@, id),
                             !.out.settle =
                                 [worker |-> w,
                                  how |-> IF data.error = "" THEN "resolve"
                                          ELSE "reject",
                                  error |-> data.error]]
         IN  Settle(s1, w, waiter, data.error)

\* onmessage that settles the request and leaves the backlog as it is.
TaskWorker_onmessageUncounted(s, w, data) ==
    IF data.messageId \notin DOMAIN s.pending[w] THEN s
    ELSE LET waiter == s.pending[w][data.messageId]
             s1 == [s EXCEPT !.pending[w] = Without(@, data.messageId),
                             !.out.settle =
                                 [worker |-> w,
                                  how |-> IF data.error = "" THEN "resolve"
                                          ELSE "reject",
                                  error |-> data.error]]
         IN  Settle(s1, w, waiter, data.error)

TaskWorker_onmessage(s, w, data) ==
    IF data.messageId \notin DOMAIN s.pending[w] THEN s
    ELSE LET waiter == s.pending[w][data.messageId]
             s1 == [s EXCEPT !.backlog[w] = @ - 1,
                             !.pending[w] = Without(@, data.messageId),
                             !.out.settle =
                                 [worker |-> w,
                                  how |-> IF data.error = "" THEN "resolve"
                                          ELSE "reject",
                                  error |-> data.error]]
         IN  Settle(s1, w, waiter, data.error)

Min(S) == CHOOSE x \in S : \A y \in S : x <= y

\* The continuations of the promises stop() rejected, in the Map's order.
RECURSIVE RejectAll(_, _, _, _)
RejectAll(s, w, waiters, ids) ==
    IF ids = {} THEN s
    ELSE RejectAll(Settle(s, w, waiters[Min(ids)], "Worker terminated"),
                   w, waiters, ids \ {Min(ids)})

\* stop that rejects the pending requests and leaves the backlog as it is.
TaskWorker_stopKeepsBacklog(s, w) ==
    LET waiters == s.pending[w]
        s1 == [s EXCEPT !.pending[w] = EmptyMap,
                        !.messageId[w] = 0,
                        !.out.settle =
                            IF DOMAIN waiters = {} THEN @
                            ELSE [worker |-> w, how |-> "reject",
                                  error |-> "Worker terminated"]]
    IN  RejectAll(s1, w, waiters, DOMAIN waiters)

TaskWorker_stop(s, w) ==
    LET waiters == s.pending[w]
        s1 == [s EXCEPT !.backlog[w] = 0,
                        !.pending[w] = EmptyMap,
                        !.messageId[w] = 0,
                        !.out.settle =
                            IF DOMAIN waiters = {} THEN @
                            ELSE [worker |-> w, how |-> "reject",
                                  error |-> "Worker terminated"]]
    IN  RejectAll(s1, w, waiters, DOMAIN waiters)

\* start() without the test on the time since the last start.
TaskWorker_tooSoonNever(started, t) == FALSE

\* start(): TRUE when the restart is refused because the last start is recent.
TaskWorker_tooSoon(started, t) ==
    started # Null /\ (t - started) < MIN_RESTART_INTERVAL

\* ---- worker-searcher ----------------------------------------------------
\* sync: JSON.parse of every manifest body; the new index is installed last.
Worker_syncOk(k) == \A j \in 1..Len(Listings[k]) : Listings[k][j].parses

\* a listing of several manifests that all parse.
LoadedListing ==
    CHOOSE k \in ListingIds : Worker_syncOk(k) /\ Len(Listings[k]) > 1

\* self.onmessage: the reply posted and the `index` afterwards.  The reply to
\* a search tells the index it was run on and the useHits it was run with.
Worker_reply(data, err, idx, useHits) ==
    [messageId |-> data.messageId, error |-> err, index |-> idx,
     useHits |-> useHits]

\* onmessage of a worker whose search does not test for an index.
Worker_onmessageUntested(idx, data) ==
    IF data.message.kind = "search"
    THEN [reply |-> Worker_reply(data, "", idx, data.message.useHits),
          index |-> idx]
    ELSE IF Worker_syncOk(data.message.sync)
         THEN [reply |-> Worker_reply(data, "", data.message.sync, FALSE),
               index |-> data.message.sync]
         ELSE [reply |-> Worker_reply(data, "Unexpected token", idx, FALSE),
               index |-> idx]

Worker_onmessage(idx, data) ==
    IF data.message.kind = "search"
    THEN IF idx = 0
         THEN [reply |-> Worker_reply(data, "still-indexing", 0, FALSE),
               index |-> idx]
         ELSE [reply |-> Worker_reply(data, "", idx, data.message.useHits),
               index |-> idx]
    ELSE IF Worker_syncOk(data.message.sync)
         THEN [reply |-> Worker_reply(data, "", data.message.sync, FALSE),
               index |-> data.message.sync]
         ELSE [reply |-> Worker_reply(data, "Unexpected token", idx, FALSE),
               index |-> idx]

\* ---- worker-searcher: the three tables of a generation --------------------
\* `index`, `searchPropertyAliases` and `documents` of a child, each told by
\* the listing it was built from; 0 is the table the module starts with.
Worker_noTables == [index |-> 0, searchPropertyAliases |-> 0, documents |-> 0]

\* sync that writes the aliases of a manifest into the table in use as it
\* reads them.
Worker_syncInPlace(st, k) ==
    IF Worker_syncOk(k)
    THEN [st |-> [index |-> k, searchPropertyAliases |-> k, documents |-> k],
          error |-> ""]
    ELSE [st |-> [st EXCEPT !.searchPropertyAliases = k],
          error |-> "Unexpected token"]

\* sync: new tables are built from the manifests, JSON.parse of a body may
\* throw on the way, and the three assignments come last.
Worker_sync(st, k) ==
    IF Worker_syncOk(k)
    THEN [st |-> [index |-> k, searchPropertyAliases |-> k, documents |-> k],
          error |-> ""]
    ELSE [st |-> st, error |-> "Unexpected token"]

\* self.onmessage, on the three tables: the tables afterwards and the reply
\* posted; `from` tells the tables a search was answered from.
Worker_onmessageTables(st, data) ==
    IF data.message.kind = "search"
    THEN [st |-> st,
          reply |-> [messageId |-> data.messageId,
                     error |-> IF st.index = 0 THEN "still-indexing" ELSE "",
                     from |-> IF st.index = 0 THEN Worker_noTables ELSE st]]
    ELSE LET r == Worker_sync(st, data.message.sync)
         IN  [st |-> r.st,
              reply |-> [messageId |-> data.messageId, error |-> r.error,
                         from |-> Worker_noTables]]

\* ---- worker-searcher: search --------------------------------------------
\* Two manifests of two documents each; ids are handed out in the order of
\* insertion, from 0.  A manifest body declares its aliases and whether its
\* documents are part of a search that names no property.
Properties == <<"atlas-master", "bi-connector-master">>
Names == {"atlas-master", "bi-connector-master", "bi-connector-alias"}
Docs == 0..3
Links == {<<0, 2>>, <<2, 1>>, <<1, 3>>, <<3, 1>>, <<3, 0>>}

Bodies ==
    [1..Len(Properties) ->
        [aliases : SUBSET Names, includeInGlobalSearch : BOOLEAN]]

\* sync: the alias table; a later manifest overwrites the entry of an
\* earlier one.
RECURSIVE Worker_aliases(_, _)
Worker_aliases(bodies, n) ==
    IF n = 0 THEN EmptyMap
    ELSE LET before == Worker_aliases(bodies, n - 1)
         IN  [a \in DOMAIN before \cup bodies[n].aliases |->
                 IF a \in bodies[n].aliases THEN Properties[n]
                 ELSE before[a]]

\* sync: the document table.
Worker_documents(bodies) ==
    [d \in Docs |->
        LET n == (d \div 2) + 1
        IN  [searchProperty |-> Properties[n],
             includeInGlobalSearch |-> bodies[n].includeInGlobalSearch]]

\* search: each requested property goes through the alias table once.
Worker_resolve(aliases, searchProperties) ==
    {IF p \in DOMAIN aliases THEN aliases[p] ELSE p : p \in searchProperties}

\* search: query.filter.
Query_filter(documents, properties, d) ==
    IF properties # {} THEN documents[d].searchProperty \in properties
    ELSE documents[d].includeInGlobalSearch = TRUE

\* getNeighbors: the documents linking to d or linked from d; the test
\* `if (ancestorID)` drops document 0.
FTSIndex_getNeighbors(d) ==
    {e \in Docs \ {0} : <<e, d>> \in Links \/ <<d, e>> \in Links}

\* FTSIndex.search with HITS returning the whole base set.
FTSIndex_searchUncut(relevancy, filter, useHits) ==
    LET rootSet == {d \in Docs : relevancy[d] > 0 /\ d \in filter}
        baseSet == rootSet \cup UNION {FTSIndex_getNeighbors(d) : d \in rootSet}
    IN  IF ~useHits THEN rootSet ELSE baseSet

\* FTSIndex.search, as the set of documents returned.  relevancy[d] is the
\* score the terms of the query give document d, 0 when the trie has no
\* match in d; a neighbour that is no match enters the base set with
\* relevancy 0, and hits() cuts what has relevancy 0.
FTSIndex_search(relevancy, filter, useHits) ==
    LET rootSet == {d \in Docs : relevancy[d] > 0 /\ d \in filter}
        baseSet == rootSet \cup UNION {FTSIndex_getNeighbors(d) : d \in rootSet}
        score == [d \in baseSet |-> IF d \in rootSet THEN relevancy[d] ELSE 0]
    IN  IF ~useHits THEN rootSet
        ELSE {d \in baseSet : score[d] > 0}

\* search() of a worker that has synced the manifests `bodies`.
Worker_search(bodies, searchProperties, relevancy, useHits) ==
    LET aliases == Worker_aliases(bodies, Len(Properties))
        documents == Worker_documents(bodies)
        properties == Worker_resolve(aliases, searchProperties)
        filter == {d \in Docs : Query_filter(documents, properties, d)}
    IN  FTSIndex_search(relevancy, filter, useHits)

\* ---- fts: search, from the match set to the matches returned --------------
MAX_MATCHES == 150

\* capLength over a sorted array, position[d] being the index of d in it:
\* the ids of the first maxLength elements.
capLength(position, maxLength) ==
    {d \in DOMAIN position : position[d] < maxLength}

\* hits over the base set: what has relevancy 0 is cut, the rest is sorted by
\* score and capped.  The score is a float made of relevancy and authority;
\* the order it gives is taken as given: by id, downwards or upwards.
hits(relevancyScore, baseSet, descending) ==
    LET matches == {d \in baseSet : relevancyScore[d] > 0}
        before(e, d) == IF descending THEN e > d ELSE e < d
        sorted == [d \in matches |->
                      Cardinality({e \in matches : before(e, d)})]
    IN  capLength(sorted, MAX_MATCHES)

\* search with a hits that cuts nothing.
FTSIndex_searchMatchesUncut(relevancy, matchSet, phraseOk, useHits, descending) ==
    LET rootSet == matchSet \cap phraseOk
        byRelevancy(e, d) ==
            \/ relevancy[e] > relevancy[d]
            \/ relevancy[e] = relevancy[d] /\ e < d
        baseSet == rootSet \cup UNION {FTSIndex_getNeighbors(d) : d \in rootSet}
        before(e, d) == IF descending THEN e > d ELSE e < d
        sortedRoot == [d \in rootSet |->
                          Cardinality({e \in rootSet : byRelevancy(e, d)})]
        sortedBase == [d \in baseSet |->
                          Cardinality({e \in baseSet : before(e, d)})]
    IN  [rootSet |-> rootSet,
         baseSet |-> IF useHits THEN baseSet ELSE rootSet,
         results |-> IF ~useHits
                     THEN capLength(sortedRoot, MAX_MATCHES)
                     ELSE capLength(sortedBase, MAX_MATCHES)]

\* search from `// Create a root set` on.  matchSet holds the documents the
\* trie matched and query.filter let through, relevancy[d] is the score of
\* match d, phraseOk the documents query.checkPhrases accepts (all of them
\* for a query without phrases).  A neighbour outside the root set enters
\* the base set as a new Match of relevancy 0.
FTSIndex_searchMatches(relevancy, matchSet, phraseOk, useHits, descending) ==
    LET rootSet == matchSet \cap phraseOk
        byRelevancy(e, d) ==
            \/ relevancy[e] > relevancy[d]
            \/ relevancy[e] = relevancy[d] /\ e < d
        baseSet == rootSet \cup UNION {FTSIndex_getNeighbors(d) : d \in rootSet}
        relevancyScore == [d \in baseSet |->
                              IF d \in rootSet THEN relevancy[d] ELSE 0]
        sortedRoot == [d \in rootSet |->
                          Cardinality({e \in rootSet : byRelevancy(e, d)})]
    IN  [rootSet |-> rootSet,
         baseSet |-> IF useHits THEN baseSet ELSE rootSet,
         results |-> IF ~useHits
                     THEN capLength(sortedRoot, MAX_MATCHES)
                     ELSE hits(relevancyScore, baseSet, descending)]

NoCall == [pc |-> "none"]

\* ---- fts: Trie ------------------------------------------------------------
\* A node is named by the characters on the way to it from the root.  `ids`
\* holds the Set kept under key 0 of a node; a node outside its domain has
\* null there.
Chars == {"a", "b"}
Tokens == UNION {[1..n -> Chars] : n \in 0..MaxTokenLen}
TrieIds == 0..1

Prefixes(token) == {SubSeq(token, 1, n) : n \in 0..Len(token)}
IsPrefix(t, u) == Len(t) <= Len(u) /\ SubSeq(u, 1, Len(t)) = t

Trie_new == [nodes |-> {<<>>}, ids |-> EmptyMap]

\* insert that takes the id out again when the node holds it already.
Trie_insertToggling(trie, token, id) ==
    LET held == IF token \in DOMAIN trie.ids THEN trie.ids[token] ELSE {}
    IN  [nodes |-> trie.nodes \cup Prefixes(token),
         ids |-> [n \in DOMAIN trie.ids \cup {token} |->
                     IF n # token THEN trie.ids[n]
                     ELSE IF id \in held THEN held \ {id}
                     ELSE held \cup {id}]]

Trie_insert(trie, token, id) ==
    LET held == IF token \in DOMAIN trie.ids THEN trie.ids[token] ELSE {}
    IN  [nodes |-> trie.nodes \cup Prefixes(token),
         ids |-> [n \in DOMAIN trie.ids \cup {token} |->
                     IF n = token THEN held \cup {id} ELSE trie.ids[n]]]

\* search that never walks below the node of the token.
Trie_searchExact(trie, token, prefixSearch) ==
    IF token \notin trie.nodes THEN EmptyMap
    ELSE IF token \in DOMAIN trie.ids
         THEN [id \in trie.ids[token] |-> {token}]
         ELSE EmptyMap

\* search: the Map from id to the Set of tokens it was reached through.  The
\* walk over the stack visits the nodes below the node of the token.
Trie_search(trie, token, prefixSearch) ==
    IF token \notin trie.nodes THEN EmptyMap
    ELSE LET results == IF token \in DOMAIN trie.ids
                        THEN [id \in trie.ids[token] |-> {token}]
                        ELSE EmptyMap
             below == {n \in trie.nodes :
                          IsPrefix(token, n) /\ n \in DOMAIN trie.ids}
         IN  IF ~prefixSearch THEN results
             ELSE [id \in DOMAIN results \cup UNION {trie.ids[n] : n \in below}
                      |-> (IF id \in DOMAIN results THEN results[id] ELSE {})
                          \cup {n \in below : id \in trie.ids[n]}]

\* ---- correlations ---------------------------------------------------------
MANDATORY == {<<"realm">>, <<"atlas">>, <<"compass">>}

\* ---- fts: Query -----------------------------------------------------------
\* A query string is a sequence of pieces: a blank, a double quote, or a run
\* of letters that stands for itself.  Adjacent runs of letters make up one
\* word.
Quote == "\""
Blank == " "
QueryChars == {"atlas", "supported", "The", Blank, Quote}
Queries == UNION {[1..n -> QueryChars] : n \in 0..MaxQueryLen}

IsWordChar(c) == c # Blank /\ c # Quote
toLowerCase(s) == [j \in 1..Len(s) |-> IF s[j] = "The" THEN "the" ELSE s[j]]

\* the first index from i on that holds no blank, Len(s) + 1 if none does.
SkipBlanks(s, i) ==
    CHOOSE j \in i..(Len(s) + 1) :
        /\ \A x \in i..(j - 1) : s[x] = Blank
        /\ j = Len(s) + 1 \/ s[j] # Blank

\* the first index from i on that holds a quote, 0 if none does.
NextQuote(s, i) ==
    IF \E j \in i..Len(s) : s[j] = Quote
    THEN CHOOSE j \in i..Len(s) :
             s[j] = Quote /\ \A x \in i..(j - 1) : s[x] # Quote
    ELSE 0

\* /((?:\s+|^)"[^"]+"(?:\s+|$))/ tried at index i: the index after the
\* match, 0 when there is none.
PhraseMatchAt(s, i) ==
    LET j == IF s[i] = Blank THEN SkipBlanks(s, i)
             ELSE IF i = 1 THEN i ELSE 0
    IN  IF j = 0 \/ j > Len(s) THEN 0
        ELSE IF s[j] # Quote THEN 0
        ELSE LET k == NextQuote(s, j + 1)
             IN  IF k = 0 \/ k = j + 1 THEN 0
                 ELSE IF k = Len(s) THEN k + 1
                 ELSE IF s[k + 1] = Blank THEN SkipBlanks(s, k + 1)
                 ELSE 0

\* String.split with that pattern: what lies between the matches, and the
\* matches; p is where the piece being collected starts, q the index tried.
RECURSIVE Query_split(_, _, _)
Query_split(s, p, q) ==
    IF q > Len(s) THEN <<SubSeq(s, p, Len(s))>>
    ELSE LET e == PhraseMatchAt(s, q)
         IN  IF e = 0 THEN Query_split(s, p, q + 1)
             ELSE <<SubSeq(s, p, q - 1), SubSeq(s, q, e - 1)>>
                      \o Query_split(s, e, e)

trim(s) ==
    LET filled == {j \in 1..Len(s) : s[j] # Blank}
    IN  IF filled = {} THEN <<>>
        ELSE SubSeq(s, CHOOSE j \in filled : \A x \in filled : j <= x,
                       CHOOSE j \in filled : \A x \in filled : j >= x)

\* processPart: lower case, split at /\W+/, empty strings dropped; the words
\* of the part in order.
processPart(part) ==
    LET s == toLowerCase(part)
        starts == {i \in 1..Len(s) :
                      IsWordChar(s[i]) /\ (i = 1 \/ ~IsWordChar(s[i - 1]))}
        nth(k) == CHOOSE i \in starts :
                      Cardinality({x \in starts : x < i}) = k - 1
        last(i) == CHOOSE j \in i..Len(s) :
                      /\ \A y \in i..j : IsWordChar(s[y])
                      /\ j = Len(s) \/ ~IsWordChar(s[j + 1])
    IN  [k \in 1..Cardinality(starts) |-> SubSeq(s, nth(k), last(nth(k)))]

Range(f) == {f[x] : x \in DOMAIN f}

isStopWord(word) == word = <<"the">>

\* The English stemmer on the words the pieces can spell: "supported" loses
\* its "ed"; "atlas" alone is kept as it is, at the end of a longer word it
\* loses its "s"; "the" at the end of a longer word loses its "e".
stem(word) ==
    LET n == Len(word)
    IN  IF n = 0 THEN word
        ELSE IF word[n] = "supported" THEN [word EXCEPT ![n] = "support"]
        ELSE IF n = 1 THEN word
        ELSE IF word[n] = "atlas" THEN [word EXCEPT ![n] = "atla"]
        ELSE IF word[n] = "the" THEN [word EXCEPT ![n] = "th"]
        ELSE word

\* stemmedPhrases entry of a phrase: the stems of its words that are not stop
\* words.
Query_stemPhrase(phrase) ==
    LET kept == SelectSeq(processPart(phrase), LAMBDA w : ~isStopWord(w))
    IN  [j \in 1..Len(kept) |-> stem(kept[j])]

\* part.match(/^\s*"/)
Query_inQuotes(part) ==
    LET j == SkipBlanks(part, 1) IN j <= Len(part) /\ part[j] = Quote

\* part.match(/\s*"([^"]*)"?\s*/)[1].toLowerCase().trim() of a part that
\* starts with a quote.
Query_phrase(part) ==
    LET j == SkipBlanks(part, 1)
        k == NextQuote(part, j + 1)
    IN  trim(toLowerCase(SubSeq(part, j + 1,
                                IF k = 0 THEN Len(part) ELSE k - 1)))

\* haveContiguousPath: some choice of one number per element of the tree
\* runs in steps of one; lastCandidate is Null on the outermost call.
RECURSIVE haveContiguousPath(_, _)
haveContiguousPath(tree, lastCandidate) ==
    IF Len(tree) = 0 THEN TRUE
    ELSE \E element \in tree[1] :
             /\ lastCandidate = Null \/ element = lastCandidate + 1
             /\ haveContiguousPath(Tail(tree), element)

haveContiguousKeywords(phraseComponents, keywords) ==
    IF \E j \in 1..Len(phraseComponents) :
           phraseComponents[j] \notin DOMAIN keywords
    THEN FALSE
    ELSE haveContiguousPath(
             [j \in 1..Len(phraseComponents) |-> keywords[phraseComponents[j]]],
             Null)

\* checkPhrases: the loop is left at the first phrase, with true when it
\* matches (break) and false when it does not.
Query_checkPhrases(stemmedPhrases, tokens) ==
    IF Len(stemmedPhrases) = 0 THEN TRUE
    ELSE haveContiguousKeywords(stemmedPhrases[1], tokens)

\* The words of the parts that are not in quotes.
Query_bareTerms(queryString) ==
    LET parts == Query_split(queryString, 1, 1)
    IN  UNION {IF Query_inQuotes(parts[j]) THEN {}
               ELSE Range(processPart(parts[j])) : j \in 1..Len(parts)}

\* The constructor, every part treated as a phrase fragment.
Query_constructorFragments(queryString) ==
    LET parts == Query_split(queryString, 1, 1)
    IN  [terms |-> UNION {Range(processPart(parts[j])) : j \in 1..Len(parts)},
         phrases |-> <<>>, stemmedPhrases |-> <<>>]

\* The constructor: the terms and the phrases of the query.
Query_constructor(queryString) ==
    LET parts == Query_split(queryString, 1, 1)
        quoted == SelectSeq(parts, Query_inQuotes)
    IN  [terms |-> UNION {IF Query_inQuotes(parts[j])
                          THEN Range(processPart(Query_phrase(parts[j])))
                          ELSE Range(processPart(parts[j])) :
                          j \in 1..Len(parts)},
         phrases |-> [j \in 1..Len(quoted) |-> Query_phrase(quoted[j])],
         stemmedPhrases |->
             [j \in 1..Len(quoted) |-> Query_stemPhrase(Query_phrase(quoted[j]))]]

\* ---- fts: FTSIndex.add ----------------------------------------------------
\* A document holds, for every field, the words of its text in order; it has
\* no links, no weight, and no word with a sigil.  `positioned` lists the
\* calls of addTokenPosition in the order they were made, `seen` the calls of
\* onToken.
FieldNames == <<"title", "text">>
IndexWords == {<<"the">>, <<"supported">>}
FieldTexts == UNION {[1..n -> IndexWords] : n \in 0..2}
Documents == [Range(FieldNames) -> FieldTexts]

MapGet(map, key, default) == IF key \in DOMAIN map THEN map[key] ELSE default
MapSet(map, key, value) ==
    [k \in DOMAIN map \cup {key} |-> IF k = key THEN value ELSE map[k]]

TermEntry_new == [docs |-> <<>>, positions |-> EmptyMap, timesAppeared |-> EmptyMap]

TermEntry_register(entry, fieldName, docID) ==
    [entry EXCEPT
        !.docs = Append(@, docID),
        !.timesAppeared = MapSet(@, fieldName, MapGet(@, fieldName, 0) + 1)]

TermEntry_addTokenPosition(entry, docID, tokenID) ==
    [entry EXCEPT
        !.positions = MapSet(@, docID, Append(MapGet(@, docID, <<>>), tokenID))]

FTSIndex_new ==
    [fields |-> [f \in Range(FieldNames) |->
                    [documents |-> EmptyMap, totalTokensSeen |-> 0]],
     trie |-> Trie_new,
     terms |-> EmptyMap,
     docID |-> 0,
     termID |-> 0,
     documentWeights |-> EmptyMap,
     positioned |-> <<>>,
     seen |-> <<>>]

\* The body of the loop over the tokens of a field, for one token; st holds
\* the index and the termFrequencies and numberOfTokens of the field.
FTSIndex_addToken(st, fieldName, word) ==
    LET idx == [st.idx EXCEPT
                   !.seen = Append(@, [docID |-> st.idx.docID,
                                       field |-> fieldName, word |-> word])]
        token == stem(word)
        termID == idx.termID + 1
        count == MapGet(st.termFrequencies, token, 0)
        entry == MapGet(idx.terms, token, TermEntry_new)
        entry1 == IF count = 0
                  THEN TermEntry_register(entry, fieldName, idx.docID)
                  ELSE entry
        entry2 == TermEntry_addTokenPosition(entry1, idx.docID, termID)
    IN  IF isStopWord(word) THEN [st EXCEPT !.idx = idx]
        ELSE [idx |-> [idx EXCEPT
                          !.termID = termID,
                          !.trie = IF count = 0
                                   THEN Trie_insert(@, token, idx.docID)
                                   ELSE @,
                          !.terms = MapSet(@, token, entry2),
                          !.positioned =
                              Append(@, [docID |-> idx.docID,
                                         field |-> fieldName,
                                         token |-> token,
                                         tokenID |-> termID])],
              termFrequencies |-> MapSet(st.termFrequencies, token, count + 1),
              numberOfTokens |-> st.numberOfTokens + 1]

RECURSIVE FTSIndex_addTokens(_, _, _)
FTSIndex_addTokens(st, fieldName, tokens) ==
    IF tokens = <<>> THEN st
    ELSE FTSIndex_addTokens(FTSIndex_addToken(st, fieldName, Head(tokens)),
                            fieldName, Tail(tokens))

\* The body of the loop over the fields, for one field without the bump of
\* termID at its end.
FTSIndex_addFieldUnbumped(idx, document, fieldName) ==
    IF document[fieldName] = <<>> THEN idx
    ELSE LET st == FTSIndex_addTokens(
                       [idx |-> idx, termFrequencies |-> EmptyMap,
                        numberOfTokens |-> 0],
                       fieldName, document[fieldName])
         IN  [st.idx EXCEPT
                 !.fields[fieldName].totalTokensSeen = @ + st.numberOfTokens,
                 !.fields[fieldName].documents =
                     MapSet(@, idx.docID,
                            [len |-> st.numberOfTokens,
                             termFrequencies |-> st.termFrequencies])]

\* The body of the loop over the fields, for one field.
FTSIndex_addField(idx, document, fieldName) ==
    IF document[fieldName] = <<>> THEN idx
    ELSE LET st == FTSIndex_addTokens(
                       [idx |-> idx, termFrequencies |-> EmptyMap,
                        numberOfTokens |-> 0],
                       fieldName, document[fieldName])
         IN  [st.idx EXCEPT
                 !.termID = @ + 1,
                 !.fields[fieldName].totalTokensSeen = @ + st.numberOfTokens,
                 !.fields[fieldName].documents =
                     MapSet(@, idx.docID,
                            [len |-> st.numberOfTokens,
                             termFrequencies |-> st.termFrequencies])]

RECURSIVE FTSIndex_addFields(_, _, _)
FTSIndex_addFields(idx, document, j) ==
    IF j > Len(FieldNames) THEN idx
    ELSE FTSIndex_addFields(FTSIndex_addField(idx, document, FieldNames[j]),
                            document, j + 1)

FTSIndex_add(idx, document) ==
    LET idx1 == FTSIndex_addFields(idx, document, 1)
    IN  [idx1 EXCEPT !.documentWeights = MapSet(@, idx.docID, 1),
                     !.docID = @ + 1]

\* ---- fts: the link graph --------------------------------------------------
\* A URL is a page and what follows it: "/" or "/index.html".
Pages == {"/a", "/b"}
Tails == {"/", "/index.html"}
Urls == Pages \X Tails

normalizeURL(url) == IF url[2] = "/index.html" THEN <<url[1], "/">> ELSE url

\* The part of an FTSIndex that add writes for a document with a url and
\* links, and the memo of getNeighbors.  The list of incoming links of a URL
\* is kept as a set: getNeighbors reads it into a Set.
FTSIndex_newLinks ==
    [docID |-> 0,
     linkGraph |-> EmptyMap,
     inverseLinkGraph |-> EmptyMap,
     urlToId |-> EmptyMap,
     idToUrl |-> EmptyMap,
     incomingNeighbors |-> EmptyMap,
     outgoingNeighbors |-> EmptyMap]

\* add, for a document with a url, links and no text in any field.
FTSIndex_addLinks(graph, document) ==
    LET url == normalizeURL(document.url)
        hrefs == {normalizeURL(href) : href \in document.links}
    IN  [graph EXCEPT
            !.linkGraph = MapSet(@, url, document.links),
            !.inverseLinkGraph =
                [h \in DOMAIN @ \cup hrefs |->
                    IF h \in hrefs THEN MapGet(@, h, {}) \cup {url}
                    ELSE @[h]],
            !.urlToId = MapSet(@, url, graph.docID),
            !.idToUrl = MapSet(@, graph.docID, url),
            !.docID = @ + 1]

\* getNeighbors: the ids found for a list of URLs; `if (id)` passes over
\* an id that is undefined and over the id 0.
FTSIndex_idsOf(graph, urls) ==
    {graph.urlToId[u] : u \in {v \in urls : v \in DOMAIN graph.urlToId}} \ {0}

\* getNeighbors(baseSet, match) for the match of document id: the ids pushed
\* onto match.incomingNeighbors and match.outgoingNeighbors, and the index
\* with both memoized.
FTSIndex_getNeighborsOf(graph, id) ==
    LET url == graph.idToUrl[id]
        links == MapGet(graph.linkGraph, url, {})
        incoming ==
            IF id \in DOMAIN graph.incomingNeighbors
            THEN graph.incomingNeighbors[id]
            ELSE FTSIndex_idsOf(graph, MapGet(graph.inverseLinkGraph, url, {}))
        outgoing ==
            IF id \in DOMAIN graph.outgoingNeighbors
            THEN graph.outgoingNeighbors[id]
            ELSE FTSIndex_idsOf(graph, links)
    IN  [incoming |-> incoming, outgoing |-> outgoing,
         graph |-> [graph EXCEPT
                       !.incomingNeighbors = MapSet(@, id, incoming),
                       !.outgoingNeighbors = MapSet(@, id, outgoing)]]

\* search: the loop over the root set; the order of the matches does not
\* change the sets.  st holds the index, the ids of the base set, and the
\* neighbours of the matches done so far.
RECURSIVE FTSIndex_expand(_, _)
FTSIndex_expand(st, rest) ==
    IF rest = {} THEN st
    ELSE LET id == Min(rest)
             n == FTSIndex_getNeighborsOf(st.graph, id)
         IN  FTSIndex_expand(
                 [graph |-> n.graph,
                  baseSet |-> st.baseSet \cup n.incoming \cup n.outgoing,
                  incoming |-> MapSet(st.incoming, id, n.incoming),
                  outgoing |-> MapSet(st.outgoing, id, n.outgoing)],
                 rest \ {id})

\* ---- fts: relevancy --------------------------------------------------------
\* Weights are counted in thousandths, logarithms in ten-thousandths; a
\* relevancy score is counted in their product, times the product of the
\* numbers of unique terms of the fields that hold documents (the
\* denominators of lengthWeight), which is the same for every score of one
\* index.
FieldWeights == [title |-> 10, text |-> 1]
DefaultTermWeight == 100
Mu == 2000
InverseDelta == 20
MinTokensSeen == 500

\* Math.log2(n / d) for the quotients that come up, rounded.
Log2Table ==
    <<2000, 2000>> :> 0 @@ <<2000, 2001>> :> -7 @@ <<2000, 2002>> :> -14 @@
    <<2000, 2003>> :> -22 @@ <<2000, 2004>> :> -29 @@ <<2000, 2005>> :> -36 @@
    <<2000, 2006>> :> -43 @@ <<2500, 2000>> :> 3219 @@ <<3000, 2000>> :> 5850 @@
    <<3500, 2000>> :> 8074 @@ <<4000, 2000>> :> 10000 @@ <<4000, 4000>> :> 0 @@
    <<4500, 4000>> :> 1699 @@ <<5000, 4000>> :> 3219 @@ <<5500, 4000>> :> 4594 @@
    <<6000, 4000>> :> 5850 @@ <<6000, 6000>> :> 0 @@ <<6500, 6000>> :> 1155 @@
    <<7000, 6000>> :> 2224 @@ <<7500, 6000>> :> 3219 @@ <<8000, 6000>> :> 4150 @@
    <<40500, 40000>> :> 179 @@ <<80500, 80000>> :> 90 @@ <<120500, 120000>> :> 60
Log2(n, d) == Log2Table[<<n, d>>]

Maximum(a, b) == IF a >= b THEN a ELSE b

RECURSIVE SumOver(_, _)
SumOver(f, S) ==
    IF S = {} THEN 0
    ELSE LET x == CHOOSE y \in S : TRUE
         IN  f[x] + SumOver(f, S \ {x})

RECURSIVE ProductOver(_, _)
ProductOver(f, S) ==
    IF S = {} THEN 1
    ELSE LET x == CHOOSE y \in S : TRUE
         IN  f[x] * ProductOver(f, S \ {x})

\* dirichletPlus; the probability of the term in the language is
\* timesAppeared / tokensSeen.
dirichletPlus(termFrequencyInQuery, termFrequencyInDoc, timesAppeared, tokensSeen, docLength, queryLength) ==
    IF timesAppeared = 0 THEN 0
    ELSE LET term2 == Log2(Mu * timesAppeared + termFrequencyInDoc * tokensSeen,
                           Mu * timesAppeared)
                      + Log2(InverseDelta * Mu * timesAppeared + tokensSeen,
                             InverseDelta * Mu * timesAppeared)
             term3 == queryLength * Log2(Mu, docLength + Mu)
         IN  termFrequencyInQuery * term2 + 1000 * term3

\* correlateWord for a word of one token.
FTSIndex_correlateWord(wordCorrelations, word, synonym, closeness) ==
    MapSet(wordCorrelations, stem(word),
           Append(MapGet(wordCorrelations, stem(word), <<>>),
                  <<stem(synonym), closeness>>))

\* A Map from stemmed terms to weights, with its keys in insertion order.
StemmedTerms_set(stemmedTerms, key, weight) ==
    [keys |-> IF key \in Range(stemmedTerms.keys) THEN stemmedTerms.keys
              ELSE Append(stemmedTerms.keys, key),
     weight |-> MapSet(stemmedTerms.weight, key, weight)]

\* for (const [correlation, weight] of correlations) { ... Math.max ... }
RECURSIVE FTSIndex_mergeCorrelations(_, _)
FTSIndex_mergeCorrelations(stemmedTerms, correlations) ==
    IF correlations = <<>> THEN stemmedTerms
    ELSE LET correlation == Head(correlations)[1]
             weight == Head(correlations)[2]
             newWeight == Maximum(MapGet(stemmedTerms.weight, correlation, 0),
                                  weight)
         IN  FTSIndex_mergeCorrelations(
                 StemmedTerms_set(stemmedTerms, correlation, newWeight),
                 Tail(correlations))

\* The loop of collectCorrelations from term i on: the term and, with the
\* term after it, the pair joined by a blank.
RECURSIVE FTSIndex_collectFrom(_, _, _, _)
FTSIndex_collectFrom(wordCorrelations, terms, stemmedTerms, i) ==
    IF i > Len(terms) THEN stemmedTerms
    ELSE LET single == stem(terms[i])
             st1 == FTSIndex_mergeCorrelations(
                        stemmedTerms, MapGet(wordCorrelations, single, <<>>))
             st2 == IF i = Len(terms) THEN st1
                    ELSE FTSIndex_mergeCorrelations(
                             st1,
                             MapGet(wordCorrelations,
                                    single \o <<Blank>> \o stem(terms[i + 1]),
                                    <<>>))
         IN  FTSIndex_collectFrom(wordCorrelations, terms, st2, i + 1)

RECURSIVE StemmedTerms_from(_, _)
StemmedTerms_from(stemmedTerms, terms) ==
    IF terms = <<>> THEN stemmedTerms
    ELSE StemmedTerms_from(StemmedTerms_set(stemmedTerms, stem(Head(terms)), 1000),
                           Tail(terms))

FTSIndex_collectCorrelations(wordCorrelations, terms) ==
    FTSIndex_collectFrom(
        wordCorrelations, terms,
        StemmedTerms_from([keys |-> <<>>, weight |-> EmptyMap], terms), 1)

\* The loop of search over stemmedTerms.keys(), from key j on; the keys set
\* during the loop are visited too.
RECURSIVE FTSIndex_correlateKeys(_, _, _)
FTSIndex_correlateKeys(wordCorrelations, stemmedTerms, j) ==
    IF j > Len(stemmedTerms.keys) THEN stemmedTerms
    ELSE FTSIndex_correlateKeys(
             wordCorrelations,
             FTSIndex_mergeCorrelations(
                 stemmedTerms,
                 MapGet(wordCorrelations, stemmedTerms.keys[j], <<>>)),
             j + 1)

\* The fields that hold documents, the number of unique terms per document
\* summed over a field, and lengthWeight with the common denominator.
FTSIndex_filled(idx) ==
    {f \in Range(FieldNames) : DOMAIN idx.fields[f].documents # {}}
Field_nTerms(field) ==
    SumOver([d \in DOMAIN field.documents |->
                Cardinality(DOMAIN field.documents[d].termFrequencies)],
            DOMAIN field.documents)
Field_lengthWeight(idx, f) ==
    Cardinality(DOMAIN idx.fields[f].documents)
        * ProductOver([g \in FTSIndex_filled(idx) \ {f} |->
                          Field_nTerms(idx.fields[g])],
                      FTSIndex_filled(idx) \ {f})

\* termRelevancyScore of a term of document docID.
FTSIndex_termRelevancyScore(idx, stemmedTerms, docID, term, queryLength) ==
    LET termEntry == idx.terms[term]
        inField(f) ==
            LET field == idx.fields[f]
                docEntry == field.documents[docID]
                termWeight ==
                    IF MapGet(stemmedTerms.weight, term, 0) = 0
                    THEN DefaultTermWeight
                    ELSE stemmedTerms.weight[term]
            IN  dirichletPlus(termWeight,
                              MapGet(docEntry.termFrequencies, term, 0),
                              MapGet(termEntry.timesAppeared, f, 0),
                              Maximum(field.totalTokensSeen, MinTokensSeen),
                              docEntry.len, queryLength)
                    * FieldWeights[f] * Field_lengthWeight(idx, f)
                    * idx.documentWeights[docID]
        holding == {f \in Range(FieldNames) :
                       docID \in DOMAIN idx.fields[f].documents}
    IN  SumOver([f \in holding |-> inField(f)], holding)

\* The relevancyScore of every match of search, for a query of the given
\* terms without phrases and without filter.
FTSIndex_relevancyScores(idx, wordCorrelations, terms) ==
    LET stemmedTerms ==
            FTSIndex_correlateKeys(
                wordCorrelations,
                FTSIndex_collectCorrelations(wordCorrelations, terms), 1)
        keys == 1..Len(stemmedTerms.keys)
        matches == [j \in keys |->
                       Trie_search(idx.trie, stemmedTerms.keys[j], TRUE)]
        matched == UNION {DOMAIN matches[j] : j \in keys}
        ofKey(docID, j) ==
            IF docID \notin DOMAIN matches[j] THEN 0
            ELSE SumOver([term \in matches[j][docID] |->
                             FTSIndex_termRelevancyScore(
                                 idx, stemmedTerms, docID, term, Len(terms))],
                         matches[j][docID])
    IN  [docID \in matched |->
            SumOver([j \in keys |-> ofKey(docID, j)], keys)]

\* ---- initial state: new Marian(source) ----------------------------------
Constructed ==
    [backlog |-> [w \in Workers |-> 0],
     pending |-> [w \in Workers |-> EmptyMap],
     messageId |-> [w \in Workers |-> 0],
     inbox |-> [w \in Workers |-> <<>>],
     suspended |-> Workers,
     loads |-> [l \in LoadIds |->
                   IF l = 1 THEN [pc |-> "fetching", i |-> 0, manifests |-> 0,
                                  caller |-> "constructor"]
                   ELSE NoLoad],
     manifests |-> <<>>,
     lastSyncDate |-> Null,
     currentlyIndexing |-> TRUE,
     worker |-> [w \in Workers |-> TRUE],
     now |-> 0,
     out |-> NoOut]

\* The variables the record s carries, and the others for a front-end whose
\* children all run since time 0.
InitFrom(s) ==
    /\ backlog = s.backlog
    /\ pending = s.pending
    /\ messageId = s.messageId
    /\ inbox = s.inbox
    /\ suspended = s.suspended
    /\ loads = s.loads
    /\ manifests = s.manifests
    /\ lastSyncDate = s.lastSyncDate
    /\ currentlyIndexing = s.currentlyIndexing
    /\ worker = s.worker
    /\ now = s.now
    /\ out = s.out
    /\ lastStarted = [w \in Workers |-> 0]
    /\ dead = [w \in Workers |-> FALSE]
    /\ errors = <<>>
    /\ restartTimer = {}
    /\ nExits = 0

Init ==
    /\ InitFrom(Constructed)
    /\ outbox = [w \in Workers |-> <<>>]
    /\ index = [w \in Workers |-> 0]
    /\ call = NoCall

\* ---- actions ------------------------------------------------------------
\* The clients stop asking once the worker a search would go to has handed
\* out cap message ids.
SearchOpen(cap) ==
    LET g == Pool_get(suspended, backlog)
    IN  IF g.worker = 0 THEN TRUE ELSE messageId[g.worker] < cap[g.worker]

\* handleSearch up to the await of Index.search, for a request with a
\* non-empty q of legal length and no If-Modified-Since header.
Marian_handleSearchStart(s) ==
    LET r == Index_search([s EXCEPT !.out.request = "search"])
    IN  IF r.error = "" THEN r.state
        ELSE Marian_fetchResultsCatch(r.state, r.error)

\* GET /search.
Marian_handleSearch(cap) ==
    /\ SearchOpen(cap)
    /\ Commit(Marian_handleSearchStart(Cur))
    /\ UNCHANGED <<call, nExits, lastStarted, dead, worker, errors, outbox, index, now,
                   restartTimer>>

\* GET /status: the handler reads the state and writes a response whose
\* code is Marian_statusCode of the state it is served in; it assigns
\* nothing.
Marian_handleStatus == UNCHANGED vars

FreeLoads == {l \in LoadIds : loads[l].pc = "free"}

\* The operators stop asking for a refresh once a worker has handed out
\* cap message ids.
RefreshOpen(cap) == \A w \in Workers : messageId[w] < cap[w]

\* POST /refresh, up to the await of getManifests; a load() that throws
\* already-indexing is answered 200 at once.
Marian_handleRefresh(cap) ==
    /\ FreeLoads # {}
    /\ currentlyIndexing \/ RefreshOpen(cap)
    /\ LET s0 == [Cur EXCEPT !.out.request = "refresh"]
           s1 == Index_load(s0, Min(FreeLoads), "refresh")
       IN  Commit(IF s1.out.error # "" THEN [s1 EXCEPT !.out.code = 200]
                  ELSE s1)
    /\ UNCHANGED <<call, nExits, lastStarted, dead, worker, errors, outbox, index, now,
                   restartTimer>>

\* getManifestsFromS3 over bucket listing k: an entry whose key the pattern
\* does not match is pushed onto errors and passed over.  The bucket of
\* LoadedListing holds one such entry besides its manifests.
WeirdKeys(k) == IF k = LoadedListing THEN 1 ELSE 0

Index_getManifestsFromS3(errs, k) ==
    errs \o [j \in 1..WeirdKeys(k) |-> "Got weird filename in manifest listing"]

\* load after the await of getManifests: `this.errors = []`.
Index_loadErrors(errs) == <<>>

\* getManifests returned listing k: errors reset, the timer is set, and the
\* call returns to handleRefresh, which answers 200.
Index_loadFetched(l, k) ==
    /\ loads[l].pc = "fetching"
    /\ errors' = Index_loadErrors(Index_getManifestsFromS3(errors, k))
    /\ loads' = [loads EXCEPT ![l].pc = "scheduled", ![l].manifests = k]
    /\ out' = [NoOut EXCEPT !.code = IF loads[l].caller = "refresh" THEN 200
                                     ELSE 0]
    /\ UNCHANGED <<call, nExits, backlog, pending, messageId, lastStarted, dead, worker,
                   suspended, manifests, lastSyncDate, currentlyIndexing,
                   inbox, outbox, index, now, restartTimer>>

\* The failure path without `this.currentlyIndexing = false`.
Index_loadFetchFailedFlagKept(l) ==
    /\ loads[l].pc = "fetching"
    /\ loads' = [loads EXCEPT ![l] = NoLoad]
    /\ out' = [NoOut EXCEPT !.error = "fetch-failed",
                            !.code = IF loads[l].caller = "refresh" THEN 500
                                     ELSE 0,
                            !.unhandled = (loads[l].caller = "constructor")]
    /\ UNCHANGED <<call, nExits, backlog, pending, messageId, lastStarted, dead, worker,
                   suspended, manifests, errors, lastSyncDate, currentlyIndexing,
                   inbox, outbox, index, now, restartTimer>>

\* getManifests threw: load clears the flag and rethrows.  handleRefresh
\* answers 500; the constructor's catch handler pushes onto Marian's errors,
\* which index.js never defines, so the handler throws.
Index_loadFetchFailed(l) ==
    /\ loads[l].pc = "fetching"
    /\ currentlyIndexing' = FALSE
    /\ loads' = [loads EXCEPT ![l] = NoLoad]
    /\ out' = [NoOut EXCEPT !.error = "fetch-failed",
                            !.code = IF loads[l].caller = "refresh" THEN 500
                                     ELSE 0,
                            !.unhandled = (loads[l].caller = "constructor")]
    /\ UNCHANGED <<call, nExits, backlog, pending, messageId, lastStarted, dead, worker,
                   suspended, manifests, errors, lastSyncDate,
                   inbox, outbox, index, now, restartTimer>>

\* The setTimeout(..., 1) callback of load starts.
Index_loadTimer(l) ==
    /\ loads[l].pc = "scheduled"
    /\ Commit(Index_loadWorker(Cur, l, 1))
    /\ UNCHANGED <<call, nExits, lastStarted, dead, worker, errors, outbox, index, now,
                   restartTimer>>

\* A worker process takes the next message of its queue.
Worker_handle(w) ==
    /\ worker[w]
    /\ inbox[w] # <<>>
    /\ LET r == Worker_onmessage(index[w], Head(inbox[w]))
       IN  /\ index' = [index EXCEPT ![w] = r.index]
           /\ outbox' = [outbox EXCEPT ![w] = Append(@, r.reply)]
    /\ inbox' = [inbox EXCEPT ![w] = Tail(@)]
    /\ out' = NoOut
    /\ UNCHANGED <<call, nExits, backlog, pending, messageId, lastStarted, dead, worker,
                   suspended, manifests, errors, lastSyncDate,
                   currentlyIndexing, loads, now, restartTimer>>

\* The front-end receives the next reply of worker w.
TaskWorker_receive(w) ==
    /\ worker[w]
    /\ outbox[w] # <<>>
    /\ outbox' = [outbox EXCEPT ![w] = Tail(@)]
    /\ Commit(TaskWorker_onmessage(Cur, w, Head(outbox[w])))
    /\ UNCHANGED <<call, nExits, lastStarted, dead, worker, errors, index, now,
                   restartTimer>>

\* The child of worker w exits: the 'exit' listener runs stop() and, unless
\* the exit was graceful, sets the restart timer.
TaskWorker_exit(w, graceful) ==
    /\ worker[w]
    /\ nExits < MaxExits
    /\ nExits' = nExits + 1
    /\ worker' = [worker EXCEPT ![w] = FALSE]
    /\ outbox' = [outbox EXCEPT ![w] = <<>>]
    /\ index' = [index EXCEPT ![w] = 0]
    /\ restartTimer' = IF graceful THEN restartTimer ELSE restartTimer \cup {w}
    /\ Commit([TaskWorker_stop(Cur, w) EXCEPT !.inbox[w] = <<>>])
    /\ UNCHANGED <<call, lastStarted, dead, errors, now>>

\* The restart timer of worker w fires: start().
TaskWorker_start(w) ==
    /\ w \in restartTimer
    /\ restartTimer' = restartTimer \ {w}
    /\ IF worker[w]
       THEN /\ UNCHANGED <<dead, worker, lastStarted>>
            /\ Commit(Cur)
       ELSE LET d == dead[w] \/ TaskWorker_tooSoon(lastStarted[w], now)
            IN  /\ dead' = [dead EXCEPT ![w] = d]
                /\ worker' = [worker EXCEPT ![w] = ~d]
                /\ lastStarted' = [lastStarted EXCEPT
                                      ![w] = IF d THEN @ ELSE now]
                /\ Commit(IF d THEN Cur ELSE TaskWorker_stop(Cur, w))
    /\ UNCHANGED <<call, nExits, errors, inbox, outbox, index, now>>

\* Time passes.  The timers of the program are far shorter than a tick, so
\* they have fired before.
Tick ==
    /\ now + TickSize <= MaxTime
    /\ restartTimer = {}
    /\ \A l \in LoadIds : loads[l].pc # "scheduled"
    /\ now' = now + TickSize
    /\ out' = NoOut
    /\ UNCHANGED <<call, nExits, backlog, pending, messageId, lastStarted, dead, worker,
                   suspended, manifests, errors, lastSyncDate,
                   currentlyIndexing, loads, inbox, outbox, index,
                   restartTimer>>

IdCap == [w \in Workers |-> MaxMessageId]

Next ==
    \/ Marian_handleSearch(IdCap)
    \/ Marian_handleRefresh(IdCap)
    \/ Marian_handleStatus
    \/ \E l \in LoadIds, k \in ListingIds : Index_loadFetched(l, k)
    \/ \E l \in LoadIds : Index_loadFetchFailed(l)
    \/ \E l \in LoadIds : Index_loadTimer(l)
    \/ \E w \in Workers : Worker_handle(w)
    \/ \E w \in Workers : TaskWorker_receive(w)
    \/ \E w \in Workers, graceful \in BOOLEAN : TaskWorker_exit(w, graceful)
    \/ \E w \in Workers : TaskWorker_start(w)
    \/ Tick

Spec == Init /\ [][Next]_vars

\* ---- a front-end under load ---------------------------------------------
\* The first load fetched a listing with a manifest that does not parse: the
\* sync of the first worker failed, the worker was resumed and the timer
\* callback ended there, the second worker still suspended and the flag
\* still set.  Preload searches have come in since: they all went to the
\* first worker, which has handled none of them yet.  No load can start
\* from here on.
\* n searches, one after the other; all of them are taken in.
RECURSIVE Searches(_, _)
Searches(s, n) ==
    IF n = 0 THEN s
    ELSE LET s1 == Marian_handleSearchStart([s EXCEPT !.out = NoOut])
         IN  IF s1.out.send.error = "" THEN Searches(s1, n - 1) ELSE s1

FailingListing == CHOOSE k \in ListingIds : ~Worker_syncOk(k)

Preloaded ==
    LET s0 == [Constructed EXCEPT !.loads[1].pc = "scheduled",
                                  !.loads[1].manifests = FailingListing]
        s1 == Index_loadWorker(s0, 1, 1)
        r == Worker_onmessage(0, Head(s1.inbox[1]))
        s2 == TaskWorker_onmessage([s1 EXCEPT !.inbox[1] = <<>>], 1, r.reply)
    IN  [state |-> Searches(s2, Preload), index |-> r.index]

InitBacklog ==
    /\ InitFrom(Preloaded.state)
    /\ outbox = [w \in Workers |-> <<>>]
    /\ index = [w \in Workers |-> IF w = 1 THEN Preloaded.index ELSE 0]
    /\ call = NoCall

\* The clients go on until a child running from the start has handed out
\* MaxMessageId ids more; a child started later is asked as in Spec.
BacklogIdCap ==
    [w \in Workers |-> IF lastStarted[w] = 0
                       THEN Preloaded.state.messageId[w] + MaxMessageId
                       ELSE MaxMessageId]

NextBacklog ==
    \/ Marian_handleSearch(BacklogIdCap)
    \/ Marian_handleRefresh(BacklogIdCap)
    \/ Marian_handleStatus
    \/ \E w \in Workers : Worker_handle(w)
    \/ \E w \in Workers : TaskWorker_receive(w)
    \/ \E w \in Workers, graceful \in BOOLEAN : TaskWorker_exit(w, graceful)
    \/ \E w \in Workers : TaskWorker_start(w)
    \/ Tick

SpecBacklog == InitBacklog /\ [][NextBacklog]_vars

\* ---- a synced worker under load ----------------------------------------
\* The first load fetched a listing of two manifests and has synced the
\* first worker; the sync of the second is in its queue.  Preload searches
\* have come in since: they all went to the first worker, which has handled
\* none of them yet.  Nobody asks for a refresh and no child exits.
PreloadedSynced ==
    LET s0 == [Constructed EXCEPT !.loads[1].pc = "scheduled",
                                  !.loads[1].manifests = LoadedListing]
        s1 == Index_loadWorker(s0, 1, 1)
        r == Worker_onmessage(0, Head(s1.inbox[1]))
        s2 == TaskWorker_onmessage([s1 EXCEPT !.inbox[1] = <<>>], 1, r.reply)
    IN  [state |-> Searches(s2, Preload), index |-> r.index]

InitSynced ==
    /\ InitFrom(PreloadedSynced.state)
    /\ outbox = [w \in Workers |-> <<>>]
    /\ index = [w \in Workers |-> IF w = 1 THEN PreloadedSynced.index ELSE 0]
    /\ call = NoCall

SyncedIdCap ==
    [w \in Workers |-> PreloadedSynced.state.messageId[w] + MaxMessageId]

NextSynced ==
    \/ Marian_handleSearch(SyncedIdCap)
    \/ Marian_handleStatus
    \/ \E w \in Workers : Worker_handle(w)
    \/ \E w \in Workers : TaskWorker_receive(w)

SpecSynced == InitSynced /\ [][NextSynced]_vars

\* ---- a front-end whose first load has ended well ---------------------------
\* The first load fetched a listing of two manifests and has synced and
\* resumed every worker, the last of them just now; clients search and
\* operators refresh from here on.  No child exits.
RECURSIVE SyncedFrom(_, _)
SyncedFrom(r, v) ==
    IF v > NWorkers THEN r
    ELSE LET data == Head(r.state.inbox[v])
             h == Worker_onmessage(r.index[v], data)
             s == TaskWorker_onmessage([r.state EXCEPT !.inbox[v] = <<>>],
                                       v, h.reply)
         IN  IF s.out.settle.worker = v
             THEN SyncedFrom([state |-> s,
                              index |-> [r.index EXCEPT ![v] = h.index]],
                             v + 1)
             ELSE r

Reloadable ==
    LET s0 == [Constructed EXCEPT !.loads[1].pc = "scheduled",
                                  !.loads[1].manifests = LoadedListing]
    IN  SyncedFrom([state |-> Index_loadWorker(s0, 1, 1),
                    index |-> [w \in Workers |-> 0]], 1)

InitReload ==
    /\ InitFrom(Reloadable.state)
    /\ outbox = [w \in Workers |-> <<>>]
    /\ index = Reloadable.index
    /\ call = NoCall

ReloadIdCap ==
    [w \in Workers |-> Reloadable.state.messageId[w] + MaxMessageId]

NextReload ==
    \/ Marian_handleSearch(ReloadIdCap)
    \/ Marian_handleRefresh(ReloadIdCap)
    \/ Marian_handleStatus
    \/ \E l \in LoadIds, k \in ListingIds : Index_loadFetched(l, k)
    \/ \E l \in LoadIds : Index_loadFetchFailed(l)
    \/ \E l \in LoadIds : Index_loadTimer(l)
    \/ \E w \in Workers : Worker_handle(w)
    \/ \E w \in Workers : TaskWorker_receive(w)

SpecReload == InitReload /\ [][NextReload]_vars

\* ---- the requests of a synced pool, every one followed to its end ---------
\* From the end of a first load that took one restart interval: clients
\* search, children answer, exit and are started again, and nobody asks for
\* a refresh.  A child may also post a message whose id is not pending.  A child with a
\* message in its queue handles it, and a reply posted is received: the
\* child runs on its own thread and the event loop takes every event posted.
MessageIds == 0..(Reloadable.state.messageId[1] + MaxMessageId)

\* worker.onmessage for a message of the child whose id is not pending.
TaskWorker_receiveUnknown(w, id) ==
    /\ worker[w]
    /\ id \notin DOMAIN pending[w]
    /\ Commit(TaskWorker_onmessage(
                  [Cur EXCEPT !.out.request = "message"], w,
                  Worker_reply([messageId |-> id], "", index[w], FALSE)))
    /\ UNCHANGED <<call, nExits, lastStarted, dead, worker, errors, outbox,
                   index, now, restartTimer>>

InitRequests ==
    /\ InitFrom([Reloadable.state EXCEPT !.now = MIN_RESTART_INTERVAL])
    /\ outbox = [w \in Workers |-> <<>>]
    /\ index = Reloadable.index
    /\ call = NoCall

NextRequests ==
    \/ Marian_handleSearch(ReloadIdCap)
    \/ \E w \in Workers : Worker_handle(w)
    \/ \E w \in Workers : TaskWorker_receive(w)
    \/ \E w \in Workers, id \in MessageIds : TaskWorker_receiveUnknown(w, id)
    \/ \E w \in Workers, graceful \in BOOLEAN : TaskWorker_exit(w, graceful)
    \/ \E w \in Workers : TaskWorker_start(w)

FairRequests ==
    \A w \in Workers :
        WF_vars(Worker_handle(w)) /\ WF_vars(TaskWorker_receive(w))

SpecRequests == InitRequests /\ [][NextRequests]_vars /\ FairRequests

\* ---- one search of a synced worker --------------------------------------
\* The worker has synced two manifests, whatever their bodies declare, and
\* is sent one search: any set of names, a query matching any of the
\* documents, with or without HITS.
Calls ==
    [pc : {"sent"}, bodies : Bodies, searchProperty : SUBSET Names,
     relevancy : [Docs -> 0..1], useHits : BOOLEAN, results : {{}}]

InitSearch ==
    /\ InitFrom(Constructed)
    /\ outbox = [w \in Workers |-> <<>>]
    /\ index = [w \in Workers |-> 0]
    /\ call \in Calls

Worker_searchCall ==
    /\ call.pc = "sent"
    /\ call' = [call EXCEPT
                   !.pc = "replied",
                   !.results = Worker_search(call.bodies, call.searchProperty,
                                             call.relevancy, call.useHits)]
    /\ UNCHANGED <<backlog, pending, messageId, lastStarted, dead, worker,
                   suspended, manifests, errors, lastSyncDate,
                   currentlyIndexing, loads, inbox, outbox, index, now,
                   restartTimer, nExits, out>>

NextSearch == Worker_searchCall

SpecSearch == InitSearch /\ [][NextSearch]_vars

\* ---- a Trie and its inserts ----------------------------------------------
\* `inserted` remembers the pairs inserted so far, `calls` how many inserts
\* were made.
others == <<backlog, pending, messageId, lastStarted, dead, worker,
            suspended, manifests, errors, lastSyncDate, currentlyIndexing,
            loads, inbox, outbox, index, now, restartTimer, nExits, out>>

InitTrie ==
    /\ InitFrom(Constructed)
    /\ outbox = [w \in Workers |-> <<>>]
    /\ index = [w \in Workers |-> 0]
    /\ call = [pc |-> "trie", trie |-> Trie_new, inserted |-> {}, calls |-> 0]

Trie_insertCall(token, id) ==
    /\ call.pc = "trie"
    /\ call.calls < MaxInserts
    /\ call' = [call EXCEPT !.trie = Trie_insert(@, token, id),
                            !.inserted = @ \cup {<<token, id>>},
                            !.calls = @ + 1]
    /\ UNCHANGED others

NextTrie == \E token \in Tokens, id \in TrieIds : Trie_insertCall(token, id)

SpecTrie == InitTrie /\ [][NextTrie]_vars

\* ---- a query string parsed ----------------------------------------------
InitQuery ==
    /\ InitFrom(Constructed)
    /\ outbox = [w \in Workers |-> <<>>]
    /\ index = [w \in Workers |-> 0]
    /\ call \in [pc : {"query"}, queryString : Queries,
                  query : {[terms |-> {}, phrases |-> <<>>, stemmedPhrases |-> <<>>]}]

Query_constructorCall ==
    /\ call.pc = "query"
    /\ call' = [call EXCEPT !.pc = "parsed",
                            !.query = Query_constructor(call.queryString)]
    /\ UNCHANGED others

NextQuery == Query_constructorCall

SpecQuery == InitQuery /\ [][NextQuery]_vars

\* ---- the phrases of a query checked against a match -----------------------
Components == {"quoth", "raven"}
Positions == 0..2
Phrases == UNION {[1..n -> Components] : n \in 0..2}
StemmedPhrases == UNION {[1..n -> Phrases] : n \in 0..MaxPhrases}
TokenPositions == UNION {[D -> SUBSET Positions] : D \in SUBSET Components}

InitPhrases ==
    /\ InitFrom(Constructed)
    /\ outbox = [w \in Workers |-> <<>>]
    /\ index = [w \in Workers |-> 0]
    /\ call \in [pc : {"phrases"}, stemmedPhrases : StemmedPhrases,
                  tokens : TokenPositions, result : {FALSE}]

Query_checkPhrasesCall ==
    /\ call.pc = "phrases"
    /\ call' = [call EXCEPT
                    !.pc = "checked",
                    !.result = Query_checkPhrases(call.stemmedPhrases, call.tokens)]
    /\ UNCHANGED others

NextPhrases == Query_checkPhrasesCall

SpecPhrases == InitPhrases /\ [][NextPhrases]_vars

\* ---- documents added to an index ------------------------------------------
InitIndex ==
    /\ InitFrom(Constructed)
    /\ outbox = [w \in Workers |-> <<>>]
    /\ index = [w \in Workers |-> 0]
    /\ call = [pc |-> "index", idx |-> FTSIndex_new]

FTSIndex_addCall(document) ==
    /\ call.pc = "index"
    /\ call.idx.docID < MaxAdds
    /\ call' = [call EXCEPT !.idx = FTSIndex_add(@, document)]
    /\ UNCHANGED others

NextIndex == \E document \in Documents : FTSIndex_addCall(document)

SpecIndex == InitIndex /\ [][NextIndex]_vars

\* ---- one search over many matches ------------------------------------------
\* The index holds MAX_MATCHES + 4 documents; the documents 0 to 3 are linked
\* as in Links.  The trie matches the first `matched` documents, query.filter
\* turns `filtered` away, the phrase check turns `unphrased` away, and the
\* terms give the documents of `scoreless` a relevancy of 0.
HitsDocs == 0..(MAX_MATCHES + 3)
MatchCounts == {0, 3, 4, MAX_MATCHES + 4}

HitsCalls ==
    [pc : {"sent"}, matched : MatchCounts, filtered : SUBSET (0..2),
     unphrased : SUBSET (0..2), scoreless : SUBSET {1}, useHits : BOOLEAN,
     descending : BOOLEAN, rootSet : {{}}, baseSet : {{}}, results : {{}}]

InitHits ==
    /\ InitFrom(Constructed)
    /\ outbox = [w \in Workers |-> <<>>]
    /\ index = [w \in Workers |-> 0]
    /\ call \in HitsCalls

FTSIndex_searchMatchesCall ==
    /\ call.pc = "sent"
    /\ LET relevancy == [d \in HitsDocs |->
                            IF d >= call.matched \/ d \in call.scoreless THEN 0
                            ELSE 1 + (d % 2)]
           matchSet == (0..(call.matched - 1)) \ call.filtered
           r == FTSIndex_searchMatches(relevancy, matchSet,
                                       HitsDocs \ call.unphrased,
                                       call.useHits, call.descending)
       IN  call' = [call EXCEPT !.pc = "replied", !.rootSet = r.rootSet,
                                !.baseSet = r.baseSet, !.results = r.results]
    /\ UNCHANGED others

NextHits == FTSIndex_searchMatchesCall

SpecHits == InitHits /\ [][NextHits]_vars

\* ---- one child and the messages it is sent --------------------------------
\* `log` lists, for every message handled so far, the message, the reply and
\* the tables before and after.
MaxMessages == 3
WorkerMessages ==
    {SearchMessage(useHits) : useHits \in BOOLEAN}
        \cup {SyncMessage(k) : k \in ListingIds}

InitWorker ==
    /\ InitFrom(Constructed)
    /\ outbox = [w \in Workers |-> <<>>]
    /\ index = [w \in Workers |-> 0]
    /\ call = [pc |-> "worker", st |-> Worker_noTables, log |-> <<>>]

Worker_onmessageCall(message) ==
    /\ call.pc = "worker"
    /\ Len(call.log) < MaxMessages
    /\ LET data == [message |-> message, messageId |-> Len(call.log)]
           r == Worker_onmessageTables(call.st, data)
       IN  call' = [call EXCEPT
                       !.st = r.st,
                       !.log = Append(@, [data |-> data, reply |-> r.reply,
                                          before |-> call.st,
                                          after |-> r.st])]
    /\ UNCHANGED others

NextWorker == \E message \in WorkerMessages : Worker_onmessageCall(message)

SpecWorker == InitWorker /\ [][NextWorker]_vars

\* ---- linked documents added to an index, then searched with HITS ----------
\* sync adds every document to a new index before the index is searched.
\* `documents` lists the documents added; a search has a root set, any
\* documents of the index.
MaxDocs == 2
LinkedDocuments == [url : Urls, links : {l \in SUBSET Urls : Cardinality(l) <= 1}]

InitLinks ==
    /\ InitFrom(Constructed)
    /\ outbox = [w \in Workers |-> <<>>]
    /\ index = [w \in Workers |-> 0]
    /\ call = [pc |-> "adding", graph |-> FTSIndex_newLinks, documents |-> <<>>,
               rootSet |-> {}, baseSet |-> {}, incoming |-> EmptyMap,
               outgoing |-> EmptyMap]

FTSIndex_addLinksCall(document) ==
    /\ call.pc = "adding"
    /\ call.graph.docID < MaxDocs
    /\ call' = [call EXCEPT !.graph = FTSIndex_addLinks(@, document),
                            !.documents = Append(@, document)]
    /\ UNCHANGED others

FTSIndex_expandCall(rootSet) ==
    /\ call.pc \in {"adding", "searched"}
    /\ rootSet # {}
    /\ LET st == FTSIndex_expand([graph |-> call.graph, baseSet |-> rootSet,
                                  incoming |-> EmptyMap, outgoing |-> EmptyMap],
                                 rootSet)
       IN  call' = [call EXCEPT !.pc = "searched", !.graph = st.graph,
                                !.rootSet = rootSet, !.baseSet = st.baseSet,
                                !.incoming = st.incoming,
                                !.outgoing = st.outgoing]
    /\ UNCHANGED others

NextLinks ==
    \/ \E document \in LinkedDocuments : FTSIndex_addLinksCall(document)
    \/ \E rootSet \in SUBSET (0..(call.graph.docID - 1)) :
           FTSIndex_expandCall(rootSet)

SpecLinks == InitLinks /\ [][NextLinks]_vars

\* ---- word correlations registered, one query scored ----------------------
SearchWords == {<<"atlas">>, <<"atlas", "supported">>}
SearchTexts == UNION {[1..n -> SearchWords] : n \in 1..2}
SearchDocuments == {[title |-> <<>>, text |-> text] : text \in SearchTexts}
SearchIndexes ==
    {FTSIndex_add(FTSIndex_new, d) : d \in SearchDocuments}
        \cup {FTSIndex_add(FTSIndex_add(FTSIndex_new, d), e) :
                  d \in SearchDocuments, e \in SearchDocuments}
QueryTerms ==
    {terms \in UNION {[1..n -> SearchWords] : n \in 1..2} :
        \A i, j \in 1..Len(terms) : i # j => terms[i] # terms[j]}
Closenesses == {50, 900}

Registered(wordCorrelations) ==
    SumOver([k \in DOMAIN wordCorrelations |-> Len(wordCorrelations[k])],
            DOMAIN wordCorrelations)

InitCorrelate ==
    /\ InitFrom(Constructed)
    /\ outbox = [w \in Workers |-> <<>>]
    /\ index = [w \in Workers |-> 0]
    /\ call \in [pc : {"correlate"}, idx : SearchIndexes, terms : QueryTerms,
                  wordCorrelations : {EmptyMap}, before : {EmptyMap}]

FTSIndex_correlateWordCall(word, synonym, closeness) ==
    /\ call.pc = "correlate"
    /\ Registered(call.wordCorrelations) < MaxCorrelations
    /\ call' = [call EXCEPT
                    !.before = FTSIndex_relevancyScores(
                                   call.idx, call.wordCorrelations, call.terms),
                    !.wordCorrelations =
                        FTSIndex_correlateWord(@, word, synonym, closeness)]
    /\ UNCHANGED others

NextCorrelate ==
    \E word \in SearchWords, synonym \in SearchWords, closeness \in Closenesses :
        FTSIndex_correlateWordCall(word, synonym, closeness)

SpecCorrelate == InitCorrelate /\ [][NextCorrelate]_vars

\* ==== properties =========================================================
\* The worker the pool's contract selects: not suspended, least backlog,
\* first created among equals.
LeastLoaded(susp, bl) ==
    CHOOSE w \in Workers \ susp :
        \A v \in Workers \ susp : bl[w] < bl[v] \/ (bl[w] = bl[v] /\ w <= v)

\* A search step that posted its message to a worker.
SearchSentTo(w) ==
    out.request = "search" /\ out.send.worker = w /\ out.send.error = ""

\* C1: whenever some worker is not suspended, Pool.get returns the
\* non-suspended worker of least backlog, the first created among equals;
\* and the worker a search was posted to is that worker for the backlogs
\* as they were before the post.
C1_GetLeastLoaded ==
    /\ suspended # Workers =>
           Pool_get(suspended, backlog) =
               [worker |-> LeastLoaded(suspended, backlog), error |-> ""]
    /\ \A w \in Workers :
           SearchSentTo(w) =>
               w = LeastLoaded(suspended, [backlog EXCEPT ![w] = @ - 1])

\* A search has just gone to the second worker because the first, equal
\* until then in everything but age, already had one more in flight.
C1_Witness ==
    /\ suspended = {}
    /\ backlog[1] = 1
    /\ backlog[2] = 1
    /\ SearchSentTo(2)

\* C2: when every worker is suspended, Pool.get returns no worker and
\* fails with pool-unavailable.
C2_AllSuspendedPoolUnavailable ==
    suspended = Workers =>
        Pool_get(suspended, backlog) = [worker |-> 0, error |-> "pool-unavailable"]

\* The workers a load is waiting on for their sync.
Syncing == {loads[l].i : l \in {k \in LoadIds : loads[k].pc = "syncing"}}

\* The message ids of the syncs queued at worker w.
SyncIds(w) ==
    {inbox[w][j].messageId :
        j \in {k \in 1..Len(inbox[w]) : inbox[w][k].message.kind = "sync"}}

\* C3: while a load waits for the sync of a worker, getStatus reports "s"
\* for it, get does not return it, no search is posted to it, and no search
\* is queued behind its sync.
C3_SyncingWorkerSuspended ==
    \A v \in Syncing :
        /\ v \in suspended
        /\ Pool_getStatus(suspended, backlog)[v] = StatusS
        /\ Pool_get(suspended, backlog).worker # v
        /\ ~SearchSentTo(v)
        /\ \A j \in 1..Len(inbox[v]) :
               inbox[v][j].message.kind = "search" =>
                   \A id \in SyncIds(v) : inbox[v][j].messageId < id

\* A search went to the first worker while the sync of the second is queued.
C3_Witness ==
    /\ Syncing = {2}
    /\ SyncIds(2) # {}
    /\ SearchSentTo(1)

\* The calls of load that have not ended.
ActiveLoads == {l \in LoadIds : loads[l].pc # "free"}

\* C5: at most one load is in progress, the flag is set while it is, and a
\* refresh refused with already-indexing has started nothing.
C5_OneLoadAtATime ==
    /\ Cardinality(ActiveLoads) <= 1
    /\ ActiveLoads # {} => currentlyIndexing
    /\ out.request = "refresh" /\ ActiveLoads # {} /\ out.error = "" =>
           \E l \in LoadIds : ActiveLoads = {l} /\ loads[l].pc = "fetching"
    /\ out.error = "already-indexing" => out.send = NoSend /\ out.code = 200

\* A refresh was refused while a load waited for a worker's sync.
C5_Witness ==
    /\ out.request = "refresh"
    /\ out.error = "already-indexing"
    /\ \E l \in LoadIds : loads[l].pc = "syncing"

\* C6: when the sync of a worker fails during a load, the worker is resumed,
\* the error is in the coordinator's error list, and no rejection goes
\* unhandled.
C6_SyncFailureRecorded ==
    out.abort # 0 =>
        /\ out.abort \notin suspended
        /\ errors # <<>>
        /\ ~out.unhandled

\* C8: a search that arrives while every worker is suspended is posted to
\* no worker and answered 503.
C8_AllSuspendedAnswers503 ==
    out.request = "search" /\ suspended = Workers =>
        out.send = NoSend /\ out.code = 503

\* C4: a send to a worker whose backlog is above MAXIMUM_BACKLOG fails with
\* backlog-exceeded and leaves the worker's queue, backlog, pending set and
\* next message id as they were.
C4_BacklogExceededRejected ==
    [][\A w \in Workers :
          out'.send.worker = w /\ backlog[w] > MAXIMUM_BACKLOG =>
              /\ out'.send.error = "backlog-exceeded"
              /\ inbox'[w] = inbox[w]
              /\ backlog'[w] = backlog[w]
              /\ pending'[w] = pending[w]
              /\ messageId'[w] = messageId[w]]_vars

\* A search was refused by a worker with MAXIMUM_BACKLOG + 1 requests pending.
C4_Witness ==
    /\ out.request = "search"
    /\ out.send = [worker |-> 1, error |-> "backlog-exceeded"]
    /\ backlog[1] = MAXIMUM_BACKLOG + 1
    /\ out.code = 503

\* C7: the step in which a manifest fetch fails ends the load with that
\* error and the flag cleared, suspends no worker, sends nothing, and leaves
\* manifests and lastSyncDate as they were.
C7_FetchFailureClearsFlag ==
    [][\A l \in LoadIds :
          loads[l].pc = "fetching" /\ loads'[l].pc = "free" =>
              /\ out'.error = "fetch-failed"
              /\ ~currentlyIndexing'
              /\ out'.send = NoSend
              /\ UNCHANGED <<suspended, inbox, backlog, pending, messageId,
                             manifests, lastSyncDate>>]_vars

\* A refresh failed on its fetch after an earlier load had gone through,
\* and the next load will be accepted.
C7_Witness ==
    /\ out.error = "fetch-failed"
    /\ out.code = 500
    /\ lastSyncDate # Null
    /\ manifests # <<>>
    /\ suspended = {}
    /\ Index_load(Cur, 1, "refresh").loads[1].pc = "fetching"

\* The ids of the requests of worker w in flight: answered ones first.
InFlight(w) ==
    [j \in 1..(Len(outbox[w]) + Len(inbox[w])) |->
        IF j <= Len(outbox[w]) THEN outbox[w][j].messageId
        ELSE inbox[w][j - Len(outbox[w])].messageId]

\* C9: for each worker, the replies on their way back and the requests on
\* their way in carry strictly increasing ids in that order, all below the
\* next id, and the pending requests are exactly those: each reply received
\* has settled the request of its id.
C9_OrderedReplies ==
    \A w \in Workers :
        LET ids == InFlight(w)
        IN  /\ \A i, j \in DOMAIN ids : i < j => ids[i] < ids[j]
            /\ \A j \in DOMAIN ids : ids[j] < messageId[w]
            /\ DOMAIN pending[w] = {ids[j] : j \in DOMAIN ids}
            /\ backlog[w] = Len(ids)
            /\ \A j \in 1..Len(inbox[w]) :
                   pending[w][inbox[w][j].messageId].kind =
                       inbox[w][j].message.kind

\* A reply of the first worker has just settled a request while later
\* replies and a later request are on their way.
C9_Witness ==
    /\ out.settle.worker = 1
    /\ out.settle.how # "none"
    /\ Len(outbox[1]) >= 2
    /\ Len(inbox[1]) >= 1

\* C10: the exit of a child leaves its worker with no pending request and
\* backlog 0, the requests that were pending rejected with Worker
\* terminated; the restart timer of a worker that last started at least
\* MIN_RESTART_INTERVAL ago starts a new child.
C10_ExitRejectsAndRestarts ==
    [][\A w \in Workers :
          /\ worker[w] /\ ~worker'[w] =>
                 /\ backlog'[w] = 0
                 /\ pending'[w] = EmptyMap
                 /\ pending[w] # EmptyMap =>
                        out'.settle = [worker |-> w, how |-> "reject",
                                       error |-> "Worker terminated"]
          /\ /\ w \in restartTimer /\ w \notin restartTimer'
             /\ ~worker[w] /\ ~dead[w]
             /\ now - lastStarted[w] >= MIN_RESTART_INTERVAL
             => /\ worker'[w] /\ ~dead'[w]
                /\ lastStarted'[w] = now
                /\ backlog'[w] = 0]_vars

\* A restarted child has answered a request sent after the restart.
C10_Witness ==
    \E w \in Workers :
        /\ lastStarted[w] > 0
        /\ worker[w]
        /\ out.settle.worker = w
        /\ out.settle.how = "resolve"

\* C11: a restart timer that fires less than MIN_RESTART_INTERVAL after the
\* worker's last start marks it dead; a dead worker stays dead and has no
\* child ever again, and a send to it fails with Worker not running.
C11_DeadIsAbsorbing ==
    [][\A w \in Workers :
          /\ /\ w \in restartTimer /\ w \notin restartTimer'
             /\ ~worker[w]
             /\ now - lastStarted[w] < MIN_RESTART_INTERVAL
             => dead'[w]
          /\ dead[w] => dead'[w] /\ ~worker'[w]
          /\ dead[w] /\ out'.send.worker = w =>
                 out'.send.error = "Worker not running"]_vars

\* A search was refused by a dead worker.
C11_Witness ==
    \E w \in Workers :
        /\ dead[w]
        /\ out.request = "search"
        /\ out.send = [worker |-> w, error |-> "Worker not running"]

\* C12: while a worker is dead, the pool status reports "d" for it and a
\* status request is answered 500.
C12_DeadReportedAsD ==
    \A w \in Workers :
        dead[w] =>
            /\ Pool_getStatus(suspended, backlog)[w] = StatusD
            /\ Marian_statusCode(suspended, backlog) = 500

\* C13: getStatus has one entry per worker, in creation order: "s" exactly
\* for the suspended workers and the current backlog for the others; after
\* resume(w) the entry of w is the backlog w has now.
C13_StatusPerWorker ==
    LET status == Pool_getStatus(suspended, backlog)
    IN  /\ DOMAIN status = 1..NWorkers
        /\ \A w \in Workers :
               /\ status[w] = StatusS <=> w \in suspended
               /\ w \notin suspended => status[w] = StatusBacklog(backlog[w])
               /\ LET r == Pool_resume(Cur, w)
                  IN  /\ Pool_getStatus(r.suspended, r.backlog)[w] =
                             StatusBacklog(backlog[w])
                      /\ \A v \in Workers \ {w} :
                             Pool_getStatus(r.suspended, r.backlog)[v] = status[v]

\* One worker is suspended with a search and its sync pending, the other
\* is not suspended.
C13_Witness ==
    \E w, v \in Workers :
        /\ w \in suspended
        /\ backlog[w] = 2
        /\ v \notin suspended

\* C14: suspend(w) and resume(w) change the suspended set and nothing else;
\* and the next reply of a suspended worker settles the request of its id
\* as it would were the worker not suspended.
C14_SuspendResumeFrame ==
    \A w \in Workers :
        /\ [Pool_suspend(Cur, w) EXCEPT !.suspended = suspended] = Cur
        /\ Pool_suspend(Cur, w).suspended = suspended \cup {w}
        /\ [Pool_resume(Cur, w) EXCEPT !.suspended = suspended] = Cur
        /\ Pool_resume(Cur, w).suspended = suspended \ {w}
        /\ w \in suspended /\ worker[w] /\ outbox[w] # <<>> =>
               LET data == Head(outbox[w])
                   s == TaskWorker_onmessage(Cur, w, data)
               IN  /\ data.messageId \in DOMAIN pending[w]
                   /\ s.out.settle.worker = w
                   /\ s.pending[w] = Without(pending[w], data.messageId)
                   /\ s.backlog[w] = backlog[w] - 1

\* A search sent to a worker before it was suspended for its sync has been
\* answered while the load still waits for that sync.
C14_Witness ==
    \E w \in Syncing :
        /\ w \in suspended
        /\ out.settle.worker = w
        /\ out.settle.how # "none"
        /\ out.settle.error # "Worker terminated"
        /\ pending[w] # EmptyMap

C16_ManifestsPublishedAtEnd ==
    [][\A l \in LoadIds :
          LET ends == loads[l] # NoLoad /\ loads'[l] = NoLoad
              synced == /\ loads[l].pc = "syncing"
                        /\ loads[l].i = NWorkers
                        /\ out'.settle = [worker |-> NWorkers,
                                          how |-> "resolve", error |-> ""]
          IN  /\ ends /\ synced => manifests' = Tags(loads[l].manifests)
              /\ ends /\ ~synced => manifests' = manifests
              /\ manifests' # manifests =>
                     \E k \in LoadIds : /\ loads[k] # NoLoad
                                        /\ loads'[k] = NoLoad
                                        /\ loads[k].pc = "syncing"
                                        /\ loads[k].i = NWorkers]_vars

\* a load of two manifests has just ended with every worker synced.
C16_Witness ==
    /\ out.settle = [worker |-> NWorkers, how |-> "resolve", error |-> ""]
    /\ ~currentlyIndexing
    /\ Len(manifests) > 1
    /\ manifests = Tags(LoadedListing)
    /\ \A l \in LoadIds : loads[l] = NoLoad

\* C17: while its child lives, the index a worker holds changes only in the
\* step in which the child handles a sync, the worker being suspended before
\* and after that step, and it changes from the index held so far to the
\* index of all the manifests of that sync; a search the child handles is
\* answered from the index held, which is none or one such complete index,
\* and leaves it in place.
C17_InstalledUnderSuspension ==
    [][\A w \in Workers :
          LET handles(kind) == /\ inbox[w] # <<>>
                               /\ inbox'[w] = Tail(inbox[w])
                               /\ Head(inbox[w]).message.kind = kind
                               /\ worker'[w]
          IN  /\ index'[w] # index[w] /\ worker'[w] =>
                     /\ handles("sync")
                     /\ w \in suspended /\ w \in suspended'
                     /\ index'[w] = Head(inbox[w]).message.sync
                     /\ Worker_syncOk(index'[w])
              /\ handles("search") =>
                     /\ index'[w] = index[w]
                     /\ outbox'[w][Len(outbox'[w])].index = index[w]
                     /\ index[w] # 0 => Worker_syncOk(index[w])]_vars

\* a suspended worker that held an index has just installed another one.
C17_Witness ==
    \E w \in Workers :
        /\ w \in suspended
        /\ Len(outbox[w]) > 1
        /\ outbox[w][1].index # 0
        /\ outbox[w][1].index # index[w]
        /\ outbox[w][Len(outbox[w])].index = index[w]
        /\ outbox[w][Len(outbox[w])].messageId \in DOMAIN pending[w]
        /\ pending[w][outbox[w][Len(outbox[w])].messageId].kind = "sync"

\* C18: a worker that holds no index answers every search in its queue with
\* the error still-indexing under the id of the request and goes on holding
\* no index; and the answers to searches on their way back tell
\* still-indexing exactly when the worker held no index.
C18_StillIndexing ==
    \A w \in Workers :
        /\ \A j \in 1..Len(inbox[w]) :
              inbox[w][j].message.kind = "search" =>
                  LET r == Worker_onmessage(0, inbox[w][j])
                  IN  /\ r.reply.error = "still-indexing"
                      /\ r.reply.messageId = inbox[w][j].messageId
                      /\ r.index = 0
        /\ \A j \in 1..Len(outbox[w]) :
              /\ outbox[w][j].messageId \in DOMAIN pending[w]
              /\ pending[w][outbox[w][j].messageId].kind = "search"
              => (outbox[w][j].index = 0
                      <=> outbox[w][j].error = "still-indexing")

\* a worker holding no index has answered a search and has another queued.
C18_Witness ==
    \E w \in Workers :
        /\ index[w] = 0
        /\ inbox[w] # <<>>
        /\ Head(inbox[w]).message.kind = "search"
        /\ outbox[w] # <<>>
        /\ Head(outbox[w]).error = "still-indexing"
        /\ Head(outbox[w]).messageId \in DOMAIN pending[w]
        /\ pending[w][Head(outbox[w]).messageId].kind = "search"

\* C19: every document a search returns belongs to one of the requested
\* properties, each taken through the alias table, when the request names
\* any, and to a manifest with includeInGlobalSearch = true otherwise, with
\* and without HITS; and a search by an alias returns what a search by the
\* property it names returns, provided that property is not itself an alias
\* declared by a manifest.
C19_ResultsWithinProperties ==
    call.pc = "replied" =>
        LET aliases == Worker_aliases(call.bodies, Len(Properties))
            documents == Worker_documents(call.bodies)
            requested == Worker_resolve(aliases, call.searchProperty)
            by(p) == Worker_search(call.bodies, {p}, call.relevancy,
                                   call.useHits)
        IN  /\ \A d \in call.results :
                  IF call.searchProperty # {}
                  THEN documents[d].searchProperty \in requested
                  ELSE documents[d].includeInGlobalSearch
            /\ \A a \in DOMAIN aliases :
                  aliases[a] \notin DOMAIN aliases => by(a) = by(aliases[a])

\* C19 as the specification states it: a search by an alias returns what a
\* search by the property it names returns, whatever the manifests declare.
C19_AliasAsProperty ==
    call.pc = "replied" =>
        LET aliases == Worker_aliases(call.bodies, Len(Properties))
            by(p) == Worker_search(call.bodies, {p}, call.relevancy,
                                   call.useHits)
        IN  \A a \in DOMAIN aliases : by(a) = by(aliases[a])

\* a search by an alias, run with HITS, has returned a document and left
\* out a matching document of the other property and a neighbour that is no
\* match.
C19_Witness ==
    /\ call.pc = "replied"
    /\ call.useHits
    /\ call.searchProperty = {"bi-connector-alias"}
    /\ Worker_aliases(call.bodies, Len(Properties)) =
           [a \in {"bi-connector-alias"} |-> "bi-connector-master"]
    /\ call.results # {}
    /\ \E d \in Docs \ call.results : call.relevancy[d] > 0
    /\ \E d \in call.results :
           \E e \in FTSIndex_getNeighbors(d) : call.relevancy[e] = 0

\* C20: a worker that handles a sync of manifests one of which does not
\* parse installs the index of the manifests that do parse, and answers the
\* sync without an error.
C20_BadManifestSkipped ==
    \A w \in Workers :
        /\ worker[w]
        /\ inbox[w] # <<>>
        /\ Head(inbox[w]).message.kind = "sync"
        /\ ~Worker_syncOk(Head(inbox[w]).message.sync)
        => LET k == Head(inbox[w]).message.sync
               parsed == SelectSeq(Listings[k], LAMBDA m : m.parses)
               r == Worker_onmessage(index[w], Head(inbox[w]))
           IN  /\ r.index # 0
               /\ Listings[r.index] = parsed
               /\ r.reply.error = ""

\* C21: once a load has fetched a bucket listing with an entry whose key
\* does not match the pattern and has returned, the error list that status
\* reports holds an error for that entry, while the load goes on with the
\* manifests of the listing.
C21_WeirdKeyReported ==
    \A l \in LoadIds :
        /\ loads[l].pc \in {"scheduled", "syncing"}
        /\ WeirdKeys(loads[l].manifests) > 0
        => /\ Len(Listings[loads[l].manifests]) > 0
           /\ \E j \in 1..Len(errors) :
                  errors[j] = "Got weird filename in manifest listing"

Quotes(s) == {j \in 1..Len(s) : s[j] = Quote}
AfterQuote(s) == trim(toLowerCase(SubSeq(s, NextQuote(s, 1) + 1, Len(s))))

\* C24: a query with an opening quote that is never closed treats the text
\* after the quote as a phrase: the phrase is added to phrases and its words
\* to terms.  Stated for the queries that hold one quote only.
C24_UnterminatedQuoteIsPhrase ==
    (call.pc = "parsed" /\ Cardinality(Quotes(call.queryString)) = 1)
        => /\ call.query.phrases = <<AfterQuote(call.queryString)>>
           /\ Range(processPart(AfterQuote(call.queryString)))
                  \subseteq call.query.terms

\* C24, as the code behaves: the unclosed quote makes a phrase when only blanks come
\* before it; after a word it makes none, and in both cases the words after
\* it are added to terms.
C24_UnterminatedLeadingQuote ==
    (call.pc = "parsed" /\ Cardinality(Quotes(call.queryString)) = 1)
        => /\ call.query.phrases =
                  IF SkipBlanks(call.queryString, 1) = NextQuote(call.queryString, 1)
                  THEN <<AfterQuote(call.queryString)>>
                  ELSE <<>>
           /\ Range(processPart(AfterQuote(call.queryString)))
                  \subseteq call.query.terms

C24_Witness ==
    /\ call.pc = "parsed"
    /\ call.queryString = <<Quote, "The", Blank, "supported">>
    /\ call.query.phrases = << <<"the", Blank, "supported">> >>
    /\ call.query.terms = {<<"the">>, <<"supported">>}

\* C25: every bare query term that is in MANDATORY (realm, atlas, compass) is
\* also treated as a phrase of one word: its stem is added to stemmedPhrases.
C25_MandatoryTermIsPhrase ==
    call.pc = "parsed"
        => \A term \in Query_bareTerms(call.queryString) \cap MANDATORY :
               <<stem(term)>> \in Range(call.query.stemmedPhrases)

\* one position can be chosen from the list of each component of the phrase,
\* in phrase order, each exactly 1 greater than the one before.
PhraseMatches(phrase, tokens) ==
    /\ \A j \in 1..Len(phrase) : phrase[j] \in DOMAIN tokens
    /\ \E f \in [1..Len(phrase) -> Positions] :
           /\ \A j \in 1..Len(phrase) : f[j] \in tokens[phrase[j]]
           /\ \A j \in 1..(Len(phrase) - 1) : f[j + 1] = f[j] + 1

\* C27: checkPhrases(tokens) is true if and only if EVERY stemmed phrase of
\* the query has such a choice of positions; one phrase without it makes the
\* result false, whatever the other phrases do.
C27_CheckPhrasesEveryPhrase ==
    call.pc = "checked"
        => (call.result <=>
               \A j \in 1..Len(call.stemmedPhrases) :
                   PhraseMatches(call.stemmedPhrases[j], call.tokens))

\* C27, as the code behaves: the result is that of the first phrase alone.
C27_CheckPhrasesFirstPhrase ==
    call.pc = "checked"
        => (call.result <=>
               (Len(call.stemmedPhrases) = 0
                    \/ PhraseMatches(call.stemmedPhrases[1], call.tokens)))

\* the workers that wait for the answer to a sync.
AwaitingSync(p) ==
    {w \in Workers : \E id \in DOMAIN p[w] : p[w][id].kind = "sync"}

C28_ListedExactlyOnce ==
    call.pc = "index" =>
        \A token \in DOMAIN call.idx.terms :
            LET entry == call.idx.terms[token]
            IN  \A d \in DOMAIN entry.positions :
                    /\ Cardinality({j \in 1..Len(entry.docs) :
                                       entry.docs[j] = d}) = 1
                    /\ \E f \in Range(FieldNames) :
                           d \in DOMAIN call.idx.fields[f].documents

\* C28, as the code behaves: the document is listed once for every field
\* that holds the token, and has an entry in the documents of those fields.
C28_ListedOncePerField ==
    call.pc = "index" =>
        \A token \in DOMAIN call.idx.terms :
            LET entry == call.idx.terms[token]
            IN  \A d \in DOMAIN entry.positions :
                    LET holding ==
                            {f \in Range(FieldNames) :
                                /\ d \in DOMAIN call.idx.fields[f].documents
                                /\ token \in DOMAIN call.idx.fields[f]
                                                  .documents[d].termFrequencies}
                    IN  /\ holding # {}
                        /\ Cardinality({j \in 1..Len(entry.docs) :
                                           entry.docs[j] = d})
                               = Cardinality(holding)

\* the calls of addTokenPosition made for document d, in order, and the
\* calls of onToken made for it with a word that is no stop word.
PositionedIn(d) ==
    SelectSeq(call.idx.positioned, LAMBDA c : c.docID = d)
IndexedIn(d) ==
    SelectSeq(call.idx.seen, LAMBDA c : c.docID = d /\ ~isStopWord(c.word))

\* C29: within one document the positions of successive indexed tokens are
\* strictly increasing; a stop word consumes no position, so that tokens of
\* one field follow each other in steps of one; and the last token of one
\* field and the first token of the next field with tokens are never at
\* consecutive positions.
C29_PositionsIncrease ==
    call.pc = "index" =>
        \A d \in 0..(call.idx.docID - 1) :
            LET calls == PositionedIn(d)
            IN  /\ Len(calls) = Len(IndexedIn(d))
                /\ \A j \in 1..Len(calls) :
                       /\ calls[j].field = IndexedIn(d)[j].field
                       /\ calls[j].token = stem(IndexedIn(d)[j].word)
                /\ \A j \in 1..(Len(calls) - 1) :
                       /\ calls[j + 1].tokenID > calls[j].tokenID
                       /\ calls[j + 1].field = calls[j].field
                              => calls[j + 1].tokenID = calls[j].tokenID + 1
                       /\ calls[j + 1].field # calls[j].field
                              => calls[j + 1].tokenID > calls[j].tokenID + 1

\* a document with a word and a stop word in its title and a stop word and
\* a word in its text: the two words are two positions apart.
C29_Witness ==
    /\ call.pc = "index"
    /\ \E d \in 0..(call.idx.docID - 1) :
           LET calls == PositionedIn(d)
               tokens == SelectSeq(call.idx.seen, LAMBDA c : c.docID = d)
           IN  /\ Len(tokens) = 4
               /\ ~isStopWord(tokens[1].word) /\ tokens[1].field = "title"
               /\ isStopWord(tokens[2].word) /\ tokens[2].field = "title"
               /\ isStopWord(tokens[3].word) /\ tokens[3].field = "text"
               /\ ~isStopWord(tokens[4].word) /\ tokens[4].field = "text"
               /\ Len(calls) = 2
               /\ calls[2].tokenID = calls[1].tokenID + 2

\* C30: for a fixed index and a fixed query, registering one more word
\* correlation with positive weight never decreases the relevancyScore of a
\* document that matched the query before the correlation was added.
C30_CorrelationNeverLowers ==
    call.pc = "correlate" =>
        LET after == FTSIndex_relevancyScores(call.idx, call.wordCorrelations,
                                              call.terms)
        IN  \A docID \in DOMAIN call.before :
                /\ docID \in DOMAIN after
                /\ after[docID] >= call.before[docID]

\* ---- C31 ------------------------------------------------------------------
\* Document d holds a link to the URL of document e, index.html or not.
LinksTo(d, e) ==
    \E href \in call.documents[d + 1].links :
        normalizeURL(href) = normalizeURL(call.documents[e + 1].url)

\* C31: in a search with HITS, for every document r of the root set and every
\* document d of the index, the document 0 and the documents whose URL ends
\* in /index.html among them: when d links to r, d is an incoming neighbour
\* of r and in the base set, and when r links to d, d is an outgoing
\* neighbour of r and in the base set.
C31_LinkedAreNeighbours ==
    call.pc = "searched" =>
        \A r \in call.rootSet, d \in 0..(call.graph.docID - 1) :
            /\ LinksTo(d, r) => d \in call.incoming[r] /\ d \in call.baseSet
            /\ LinksTo(r, d) => d \in call.outgoing[r] /\ d \in call.baseSet

\* ---- C32 ------------------------------------------------------------------
\* C32: for every TaskWorker, in every state, backlog is the number of
\* pending requests, is not negative, and is at most MAXIMUM_BACKLOG + 1.
C32_BacklogCountsPending ==
    \A w \in Workers :
        /\ backlog[w] = Cardinality(DOMAIN pending[w])
        /\ backlog[w] >= 0
        /\ backlog[w] <= MAXIMUM_BACKLOG + 1

\* A worker took in the request that brought it to MAXIMUM_BACKLOG + 1.
C32_Witness ==
    \E w \in Workers :
        /\ out.send = [worker |-> w, error |-> ""]
        /\ backlog[w] = MAXIMUM_BACKLOG + 1

\* ---- C33 ------------------------------------------------------------------
\* C33: a load that was accepted clears the indexing flag in the end, also
\* when the sync of a worker fails or is refused: once no call of load is
\* under way, the flag is clear and the next load is let in.
C33_EndedLoadClearsFlag ==
    (\A l \in LoadIds : loads[l] = NoLoad) => ~currentlyIndexing

\* ---- C34 ------------------------------------------------------------------
\* C34: when the timer callback of a load ends, with every sync done or with
\* the sync of one worker failed, no worker is left suspended, the workers
\* suspended since start-up that come after the failing one among them.
C34_EndedLoadResumesAll ==
    [][\A l \in LoadIds :
          loads[l].pc \in {"scheduled", "syncing"} /\ loads'[l] = NoLoad =>
              suspended' = {}]_vars

\* ---- C35 ------------------------------------------------------------------
\* C35: once a load has synced and resumed every worker of a pool of two or
\* more, some worker is unsuspended in every later state, a reload under way
\* or not, and every search is handed to a worker, none failing for want of
\* a pool element.
C35_SomeWorkerUnsuspended ==
    manifests # <<>> =>
        /\ suspended # Workers
        /\ out.request = "search" =>
               out.send.worker \in Workers \ suspended

\* A search came in while a reload held a worker suspended, and went to
\* another worker.
C35_Witness ==
    /\ manifests # <<>>
    /\ out.request = "search"
    /\ suspended # {}
    /\ out.send.worker \in Workers \ suspended
    /\ out.send.error = ""
    /\ \E l \in LoadIds : loads[l].pc = "syncing"

\* ---- C36 ------------------------------------------------------------------
\* C36: the worker Pool.get hands a search to has a running child whenever
\* some unsuspended worker has one; a stopped worker's backlog of 0 does not
\* draw the searches to it.
C36_GetSkipsStopped ==
    out.request = "search" /\ out.send.worker \in Workers =>
        \/ worker[out.send.worker]
        \/ \A v \in Workers \ suspended : ~worker[v]

\* ---- C37 ------------------------------------------------------------------
\* C37: the worker a search is handed to holds an installed index: a worker
\* suspended at start-up is handed searches only after a sync on it has
\* succeeded, and no search in a queue waits for still-indexing.
C37_SearchedWorkerHasIndex ==
    out.request = "search" /\ out.send.worker \in Workers
        /\ out.send.error = "" => index[out.send.worker] # 0

\* ---- C38 ------------------------------------------------------------------
\* C38: a sync that fails in a child leaves its index, alias table and
\* document table as they were and is answered with an error under the id of
\* the sync; and every search handled while the child holds an index is
\* answered, without error and under its own id, from the tables the child
\* held before it, a failed sync in between or not.
C38_FailedSyncKeepsGeneration ==
    call.pc = "worker" =>
        \A j \in 1..Len(call.log) :
            LET e == call.log[j]
            IN  /\ e.data.message.kind = "sync"
                       /\ ~Worker_syncOk(e.data.message.sync) =>
                       /\ e.after = e.before
                       /\ e.reply.error # ""
                       /\ e.reply.messageId = e.data.messageId
                /\ e.data.message.kind = "search" /\ e.before.index # 0 =>
                       /\ e.after = e.before
                       /\ e.reply.error = ""
                       /\ e.reply.messageId = e.data.messageId
                       /\ e.reply.from = e.before
                       /\ e.before.searchPropertyAliases = e.before.index
                       /\ e.before.documents = e.before.index

\* A child that held an index failed a sync and has answered a search since.
C38_Witness ==
    /\ call.pc = "worker"
    /\ Len(call.log) = 3
    /\ call.log[1].after.index # 0
    /\ call.log[2].data.message.kind = "sync"
    /\ call.log[2].reply.error # ""
    /\ call.log[3].data.message.kind = "search"
    /\ call.log[3].reply.from = call.log[1].after

\* ---- C39 ------------------------------------------------------------------
\* C39: every match a search with HITS returns is a match of the trie that
\* query.filter and the phrase check let through; no document that is in the
\* base set only as a neighbour is returned, a document the filter or the
\* phrase check turned away included; and at most MAX_MATCHES matches are
\* returned.
C39_HitsReturnsRootSet ==
    call.pc = "replied" /\ call.useHits =>
        LET root == {d \in 0..(call.matched - 1) :
                        d \notin call.filtered /\ d \notin call.unphrased}
        IN  /\ call.results \subseteq root
            /\ call.results \cap (call.baseSet \ root) = {}
            /\ Cardinality(call.results) <= MAX_MATCHES

\* A search with HITS over more than MAX_MATCHES root matches returned
\* MAX_MATCHES of them; the base set held a neighbour the filter had turned
\* away and one the phrase check had turned away.
C39_Witness ==
    /\ call.pc = "replied"
    /\ call.useHits
    /\ Cardinality(call.rootSet) > MAX_MATCHES
    /\ Cardinality(call.results) = MAX_MATCHES
    /\ (call.baseSet \ call.rootSet) \cap call.filtered # {}
    /\ (call.baseSet \ call.rootSet) \cap (call.unphrased \ call.filtered) # {}

\* ---- C40 ------------------------------------------------------------------
\* The step takes request id of worker w out of the pending set by the reply
\* that carries the id: resolved when the reply has no error, rejected with
\* the reply's error otherwise.
SettledByReply(w, id) ==
    /\ outbox[w] # <<>>
    /\ Head(outbox[w]).messageId = id
    /\ outbox'[w] = Tail(outbox[w])
    /\ DOMAIN pending'[w] = DOMAIN pending[w] \ {id}
    /\ backlog'[w] = backlog[w] - 1
    /\ out'.settle =
           [worker |-> w,
            how |-> IF Head(outbox[w]).error = "" THEN "resolve" ELSE "reject",
            error |-> Head(outbox[w]).error]

\* The step stops worker w and rejects what was pending.
SettledByStop(w) ==
    /\ worker[w] /\ ~worker'[w]
    /\ pending'[w] = EmptyMap
    /\ backlog'[w] = 0
    /\ out'.settle = [worker |-> w, how |-> "reject",
                      error |-> "Worker terminated"]

\* C40: a request leaves the pending set only by being settled, by the reply
\* of its id or by the stop of its worker, so it is settled once; a message
\* whose id is not pending settles nothing and leaves backlog and pending
\* set alone; and every pending request leaves the pending set in the end.
C40_SettledOnce ==
    /\ [][\A w \in Workers :
             /\ \A id \in DOMAIN pending[w] :
                    id \notin DOMAIN pending'[w] =>
                        SettledByReply(w, id) \/ SettledByStop(w)
             /\ \A id \in DOMAIN pending[w] \cap DOMAIN pending'[w] :
                    pending'[w][id] = pending[w][id]
             /\ out'.request = "message" =>
                    /\ backlog' = backlog
                    /\ pending' = pending
                    /\ out'.settle = NoSettle]_vars
    /\ \A w \in Workers, id \in MessageIds :
           (id \in DOMAIN pending[w]) ~> (id \notin DOMAIN pending[w])

\* A message with an id that is not pending has come from a restarted child
\* that has a request pending.
C40_Witness ==
    \E w \in Workers :
        /\ out.request = "message"
        /\ pending[w] # EmptyMap
        /\ lastStarted[w] > 0
        /\ worker[w]

====
